---- MODULE Spec2Model ----
(***************************************************************************)
(* Model of the dkm key manager (internal/keymgr/keymgr.go) over the      *)
(* SQLite store (internal/store/sqlite.go).                               *)
(*                                                                         *)
(* Cryptography is symbolic: a BIP32 key is the pair (seed, path), its    *)
(* public key, private key and WIF text are distinct terms built from     *)
(* that pair, and an AEAD ciphertext is a term that opens only under the  *)
(* Argon2id key and nonce it was sealed with.  Random draws are inputs of *)
(* the operations; the draw 0 stands for a failing rand.Read.             *)
(***************************************************************************)
EXTENDS Integers, Sequences, FiniteSets, TLC

\* ------------------------------------------------------------------ bounds
MaxEntropy == 1     \* CreateKey draws its entropy from 1..MaxEntropy
MaxRand    == 2     \* salts and nonces are drawn from 1..MaxRand
MaxTokens  == 2     \* session tokens minted in one run
MaxTicks   == 2     \* clock advances in one run
MaxPup     == 1     \* pup ids 1..MaxPup

\* ------------------------------------------------------- program constants
SessionTime  == 600
HandoverTime == 10
MainKey      == 1
MaxAttempts  == 1000
ArgonTime    == 3
ArgonThreads == 4
ArgonMemory  == 65536
ArgonKeySize == 32
HardenedHi   == 32768    \* doge.HardenedKey = 2^31 = HardenedHi * 2^16

\* ------------------------------------------------------------------ errors
Nil                == "nil"
ErrOutOfEntropy    == "ErrOutOfEntropy"
ErrWrongPassword   == "ErrWrongPassword"
ErrBadToken        == "ErrBadToken"
ErrKeyExists       == "ErrKeyExists"
ErrTooManyAttempts == "ErrTooManyAttempts"
ErrWrongMnemonic   == "ErrWrongMnemonic"
ErrNoKey           == "ErrNoKey"
ErrBadKey          == "ErrBadKey"
ErrNotFound        == "ErrNotFound"
ErrAlreadyExists   == "ErrAlreadyExists"
ErrAnotherSeed     == "ErrAnotherSeed"
ErrWrongLength     == "ErrWrongLength"
ErrWrongWord       == "ErrWrongWord"
ErrWrongChecksum   == "ErrWrongChecksum"
ErrWrongToken      == "ErrWrongToken"
Panic              == "panic"       \* the call does not return: it panics

\* ------------------------------------------------------------------ inputs
Passwords == {"suchpass", "wowsecure"}
RngFail   == 0                      \* a rand.Read that returns an error
Draws     == 0..MaxRand             \* salt / nonce draws, RngFail included
Entropies == 0..MaxEntropy          \* entropy draws, RngFail included
Pups      == 1..MaxPup
NoToken   == 0                      \* a token string that was never minted
Steps     == {HandoverTime \div 2, SessionTime + HandoverTime \div 2}
NoBytes   == <<>>                   \* nil / empty byte slice
Empty     == 0                      \* a salt or nonce of length 0

VARIABLES
    config,     \* rows of table config   (id PRIMARY KEY, s1, s2, enc, pub)
    delegate,   \* rows of table delegate (id PRIMARY KEY, s1, s2, enc, pub, keyid)
    sessions,   \* km.sessions : token -> session
    key,        \* km.key : cached decrypted master (WIF text) or NoBytes
    now,        \* wall clock, seconds
    ticks,      \* number of clock advances so far
    nextTok,    \* the next token the random source will produce
    issued,     \* the mnemonic CreateKey handed to the operator
    ret,        \* the call that completed last, with its results
    stale,      \* key material left in buffers km.key no longer points to
    procs,      \* the calls in flight when calls run concurrently
    env         \* the envelope under test: inputs, sealed form, opened form

vars == <<config, delegate, sessions, key, now, ticks, nextTok, issued, ret,
          stale, procs, env>>

\* what the sequential operations of the key manager never touch
rest == <<procs, env>>

\* ------------------------------------------------------------ BIP39 / BIP32
Foreign   == MaxEntropy + 1         \* the entropy of somebody else's mnemonic
Rejected  == MaxEntropy + 2         \* an entropy whose seed BIP32 rejects
WordList  == 0..Rejected
BadWord   == Rejected + 1           \* a word that is not on the word list

Checksum(e) == (3 * e + 1) % (Rejected + 1)

\* bip39.GenerateRandomMnemonic: the entropy word followed by its checksum
MnemonicOf(e) == <<e, Checksum(e)>>

\* bip39.SeedFromMnemonic(mnemonic, passphrase, EnglishWordList): the seed
\* depends on the entropy the words encode and on the passphrase
NoSeed == <<0, "">>
SeedFromMnemonic(m, passphrase) ==
    IF Len(m) # 2 THEN [err |-> ErrWrongLength, seed |-> NoSeed]
    ELSE IF \E i \in 1..Len(m) : m[i] \notin WordList
         THEN [err |-> ErrWrongWord, seed |-> NoSeed]
    ELSE IF m[2] # Checksum(m[1]) THEN [err |-> ErrWrongChecksum, seed |-> NoSeed]
    ELSE [err |-> Nil, seed |-> <<m[1], passphrase>>]

\* doge.Bip32MasterFromSeed: the seeds of the entropy Rejected are the rare
\* seeds BIP32 rejects
Bip32MasterFromSeed(seed) ==
    IF seed[1] = Rejected THEN [err |-> ErrAnotherSeed, key |-> [seed |-> NoSeed, path |-> <<>>]]
    ELSE [err |-> Nil, key |-> [seed |-> seed, path |-> <<>>]]

GetECPubKey(k)  == <<"pub", k.seed, k.path>>
GetECPrivKey(k) == <<"priv", k.seed, k.path>>
EncodeWIF(k)    == <<"xprv", k.seed, k.path>>

DecodeBip32WIF(w) ==
    IF Len(w) = 3 /\ w[1] = "xprv"
    THEN [err |-> Nil, key |-> [seed |-> w[2], path |-> w[3]]]
    ELSE [err |-> ErrBadKey, key |-> [seed |-> NoSeed, path |-> <<>>]]

\* (*Bip32Key).PrivateCKD(path, true)
PrivateCKD(k, idxs) == [seed |-> k.seed, path |-> k.path \o idxs]

\* H + n in uint32 arithmetic, the result as <<high, low>> 16-bit halves
Hardened(n) == <<(HardenedHi + n \div 65536) % 65536, n % 65536>>

\* ---------------------------------------------------------------- envelope
\* argon2.IDKey: the derived key is a function of all six arguments
IDKey(pass, salt, time, memory, threads, keyLen) ==
    <<pass, salt, time, memory, threads, keyLen>>

\* mutant: the sealing key is derived with one Argon2 pass
encryptKeyOnePass(secret, pass, saltDraw, nonceDraw) ==
    IF saltDraw = RngFail \/ nonceDraw = RngFail
    THEN [err |-> ErrOutOfEntropy, salt |-> Empty, nonce |-> Empty, enc |-> NoBytes]
    ELSE [err |-> Nil, salt |-> saltDraw, nonce |-> nonceDraw,
          enc |-> <<IDKey(pass, saltDraw, 1, ArgonMemory, ArgonThreads, ArgonKeySize),
                    nonceDraw, secret>>]

encryptKey(secret, pass, saltDraw, nonceDraw) ==
    IF saltDraw = RngFail \/ nonceDraw = RngFail
    THEN [err |-> ErrOutOfEntropy, salt |-> Empty, nonce |-> Empty, enc |-> NoBytes]
    ELSE [err |-> Nil, salt |-> saltDraw, nonce |-> nonceDraw,
          enc |-> <<IDKey(pass, saltDraw, ArgonTime, ArgonMemory, ArgonThreads,
                          ArgonKeySize),
                    nonceDraw, secret>>]

\* mutant: the envelope opens under any password
decryptKeyAnyPass(salt, nonce, enc, pass) ==
    IF nonce = Empty
    THEN [err |-> Panic, key |-> NoBytes]
    ELSE IF Len(enc) = 3
    THEN [err |-> Nil, key |-> enc[3]]
    ELSE [err |-> ErrWrongPassword, key |-> NoBytes]

\* aead.Open panics on a nonce that is not NonceSizeX bytes long, before it
\* looks at the ciphertext
decryptKey(salt, nonce, enc, pass) ==
    IF nonce = Empty
    THEN [err |-> Panic, key |-> NoBytes]
    ELSE IF /\ Len(enc) = 3
            /\ enc[1] = IDKey(pass, salt, ArgonTime, ArgonMemory, ArgonThreads,
                              ArgonKeySize)
            /\ enc[2] = nonce
    THEN [err |-> Nil, key |-> enc[3]]
    ELSE [err |-> ErrWrongPassword, key |-> NoBytes]

\* ------------------------------------------------------------------- store
ConfigRow(id, s1, s2, enc, pub) ==
    [id |-> id, s1 |-> s1, s2 |-> s2, enc |-> enc, pub |-> pub]

\* mutant: the INSERT meets no primary-key constraint
SetKeyNoConstraint(cfg, id, s1, s2, enc, pub, allowReplace) ==
    [err |-> Nil, config |-> cfg \cup {ConfigRow(id, s1, s2, enc, pub)}]

SetKey(cfg, id, s1, s2, enc, pub, allowReplace) ==
    IF \E r \in cfg : r.id = id
    THEN IF allowReplace
         THEN [err |-> Nil,
               config |-> {r \in cfg : r.id # id} \cup {ConfigRow(id, s1, s2, enc, pub)}]
         ELSE [err |-> ErrAlreadyExists, config |-> cfg]
    ELSE [err |-> Nil, config |-> cfg \cup {ConfigRow(id, s1, s2, enc, pub)}]

GetKey(cfg, id) ==
    IF \E r \in cfg : r.id = id
    THEN [err |-> Nil, row |-> CHOOSE r \in cfg : r.id = id]
    ELSE [err |-> ErrNotFound, row |-> ConfigRow(id, Empty, Empty, NoBytes, NoBytes)]

GetKeyPub(cfg, id) ==
    [err |-> GetKey(cfg, id).err, pub |-> GetKey(cfg, id).row.pub]

DelegateRow(id, s1, s2, enc, pub, keyid) ==
    [id |-> id, s1 |-> s1, s2 |-> s2, enc |-> enc, pub |-> pub, keyid |-> keyid]

\* mutant: INSERT OR REPLACE
SetDelegateReplace(dlg, id, s1, s2, enc, pub, keyid) ==
    [err |-> Nil,
     delegate |-> {r \in dlg : r.id # id} \cup {DelegateRow(id, s1, s2, enc, pub, keyid)}]

SetDelegate(dlg, id, s1, s2, enc, pub, keyid) ==
    IF \E r \in dlg : r.id = id
    THEN [err |-> ErrAlreadyExists, delegate |-> dlg]
    ELSE [err |-> Nil, delegate |-> dlg \cup {DelegateRow(id, s1, s2, enc, pub, keyid)}]

GetDelegatePub(dlg, id) ==
    IF \E r \in dlg : r.id = id
    THEN [err |-> Nil, pub |-> (CHOOSE r \in dlg : r.id = id).pub,
          keyid |-> (CHOOSE r \in dlg : r.id = id).keyid]
    ELSE [err |-> ErrNotFound, pub |-> NoBytes, keyid |-> 0]

GetDelegatePriv(dlg, id) ==
    IF \E r \in dlg : r.id = id
    THEN LET r == CHOOSE q \in dlg : q.id = id
         IN  [err |-> Nil, s1 |-> r.s1, s2 |-> r.s2, enc |-> r.enc, pub |-> r.pub]
    ELSE [err |-> ErrNotFound, s1 |-> Empty, s2 |-> Empty, enc |-> NoBytes,
          pub |-> NoBytes]

\* mutant: SELECT 0 in place of COALESCE(MAX(keyid),0)
GetMaxDelegateZero(dlg) == 0

GetMaxDelegate(dlg) ==
    IF dlg = {} THEN 0
    ELSE CHOOSE m \in {r.keyid : r \in dlg} : \A r \in dlg : r.keyid <= m

\* ---------------------------------------------------------------- sessions
Session(expires, rolled) == [expires |-> expires, rolled |-> rolled]
NoSession == Session(-1, FALSE)     \* no entry under the token

Lookup(ss, token) == IF token \in DOMAIN ss THEN ss[token] ELSE NoSession

Put(m, k, v) == [x \in DOMAIN m \cup {k} |-> IF x = k THEN v ELSE m[x]]
Delete(m, k) == [x \in DOMAIN m \ {k} |-> m[x]]

\* mutant: nothing is pruned
cleanSessionsKeep(ss, t) == ss

cleanSessions(ss, t) ==
    [x \in {k \in DOMAIN ss : ~(ss[k].expires < t)} |-> ss[x]]

\* mutant: a failed mint is reported as a bad token
newSessionBadToken(ss, t, tokDraw) ==
    IF tokDraw = RngFail
    THEN [err |-> ErrBadToken, token |-> NoToken, ends |-> 0, sessions |-> ss]
    ELSE [err |-> Nil, token |-> tokDraw, ends |-> SessionTime,
          sessions |-> Put(ss, tokDraw, Session(t + SessionTime + HandoverTime, FALSE))]

\* mutant: the session ends with the reported ttl, without the handover time
newSessionNoHandover(ss, t, tokDraw) ==
    IF tokDraw = RngFail
    THEN [err |-> ErrOutOfEntropy, token |-> NoToken, ends |-> 0, sessions |-> ss]
    ELSE [err |-> Nil, token |-> tokDraw, ends |-> SessionTime,
          sessions |-> Put(ss, tokDraw, Session(t + SessionTime, FALSE))]

newSession(ss, t, tokDraw) ==
    IF tokDraw = RngFail
    THEN [err |-> ErrOutOfEntropy, token |-> NoToken, ends |-> 0, sessions |-> ss]
    ELSE [err |-> Nil, token |-> tokDraw, ends |-> SessionTime,
          sessions |-> Put(ss, tokDraw, Session(t + SessionTime + HandoverTime, FALSE))]

\* ------------------------------------------------------------ key helpers
\* mutant: a missing record is reported as a wrong password
getAndDecryptKeyNoRecord(cfg, keyId, pass) ==
    LET g == GetKey(cfg, keyId)
        d == decryptKey(g.row.s1, g.row.s2, g.row.enc, pass)
    IN  IF g.err # Nil
        THEN [err |-> ErrWrongPassword, key |-> NoBytes, pub |-> NoBytes]
        ELSE [err |-> d.err, key |-> d.key, pub |-> g.row.pub]

\* mutant: with a master in the cache the password is not looked at
getAndDecryptKeyCached(cfg, keyId, pass) ==
    LET g == GetKey(cfg, keyId)
        d == decryptKey(g.row.s1, g.row.s2, g.row.enc, pass)
    IN  IF g.err # Nil
        THEN [err |-> ErrNoKey, key |-> NoBytes, pub |-> NoBytes]
        ELSE IF key # NoBytes
        THEN [err |-> Nil, key |-> key, pub |-> g.row.pub]
        ELSE [err |-> d.err, key |-> d.key, pub |-> g.row.pub]

getAndDecryptKey(cfg, keyId, pass) ==
    LET g == GetKey(cfg, keyId)
        d == decryptKey(g.row.s1, g.row.s2, g.row.enc, pass)
    IN  IF g.err # Nil
        THEN [err |-> ErrNoKey, key |-> NoBytes, pub |-> NoBytes]
        ELSE [err |-> d.err, key |-> d.key, pub |-> g.row.pub]

encryptAndSetKey(cfg, keyId, secret, pub, pass, allowReplace, saltDraw, nonceDraw) ==
    LET e == encryptKey(secret, pass, saltDraw, nonceDraw)
    IN  IF e.err # Nil
        THEN [err |-> e.err, config |-> cfg]
        ELSE SetKey(cfg, keyId, e.salt, e.nonce, e.enc, pub, allowReplace)

\* mutant: the seed is derived under a BIP39 passphrase
generateMnemonicPassphrase(nbad, e) ==
    LET m == Bip32MasterFromSeed(SeedFromMnemonic(MnemonicOf(e), "pass").seed)
    IN  IF nbad >= MaxAttempts
        THEN [err |-> ErrTooManyAttempts, mnemonic |-> <<>>, key |-> NoBytes, pub |-> NoBytes]
        ELSE IF e = RngFail
        THEN [err |-> ErrOutOfEntropy, mnemonic |-> <<>>, key |-> NoBytes, pub |-> NoBytes]
        ELSE [err |-> Nil, mnemonic |-> MnemonicOf(e),
              key |-> EncodeWIF(m.key), pub |-> GetECPubKey(m.key)]

\* the first nbad attempts drew the entropy Rejected (ErrAnotherSeed), the
\* next one drew e (RngFail: no entropy)
generateMnemonic(nbad, e) ==
    LET m == Bip32MasterFromSeed(SeedFromMnemonic(MnemonicOf(e), "").seed)
    IN  IF nbad >= MaxAttempts
        THEN [err |-> ErrTooManyAttempts, mnemonic |-> <<>>, key |-> NoBytes, pub |-> NoBytes]
        ELSE IF e = RngFail
        THEN [err |-> ErrOutOfEntropy, mnemonic |-> <<>>, key |-> NoBytes, pub |-> NoBytes]
        ELSE [err |-> Nil, mnemonic |-> MnemonicOf(e),
              key |-> EncodeWIF(m.key), pub |-> GetECPubKey(m.key)]

\* memZero overwrites every byte of the buffer: what is left holds no key
\* material
memZero(buf) == NoBytes

\* the key manager lets go of a buffer: what it held stays in memory
Drop(st, buf) == IF buf = NoBytes THEN st ELSE st \cup {buf}

\* ----------------------------------------------------------------- results
NoRet ==
    [op |-> "New", err |-> Nil, pass |-> "", newpass |-> "", mnemonic |-> <<>>,
     token |-> NoToken, found |-> NoSession, id |-> 0, newtoken |-> NoToken,
     ends |-> 0,
     privkey |-> NoBytes, pubkey |-> NoBytes, wif |-> NoBytes]

\* no envelope under test
NoEnv == [phase |-> "none"]

Init ==
    /\ config = {}
    /\ delegate = {}
    /\ sessions = <<>>
    /\ key = NoBytes
    /\ now = 0
    /\ ticks = 0
    /\ nextTok = 1
    /\ issued = <<>>
    /\ ret = NoRet
    /\ stale = {}
    /\ procs = <<>>
    /\ env = NoEnv

\* the token draws open to an operation: a failing read or a fresh token
TokenDraws == {RngFail} \cup (IF nextTok <= MaxTokens THEN {nextTok} ELSE {})

\* -------------------------------------------------------------- operations
CreateKey(pass, nbad, e, saltDraw, nonceDraw) ==
    LET g == generateMnemonic(nbad, e)
        s == encryptAndSetKey(config, MainKey, g.key, g.pub, pass, FALSE, saltDraw, nonceDraw)
        err == IF g.err # Nil THEN g.err
               ELSE IF s.err = ErrAlreadyExists THEN ErrKeyExists
               ELSE s.err
    IN  /\ config' = IF g.err = Nil THEN s.config ELSE config
        /\ issued' = IF err = Nil THEN g.mnemonic ELSE issued
        /\ ret' = [NoRet EXCEPT !.op = "CreateKey", !.err = err, !.pass = pass,
                                !.mnemonic = IF err = Nil THEN g.mnemonic ELSE <<>>]
        /\ UNCHANGED <<stale, rest, delegate, sessions, key, now, ticks, nextTok>>

\* mutant: with a master in the cache the password is taken as good
LogInCached(pass, tokDraw) ==
    LET ss == cleanSessions(sessions, now)
        d  == getAndDecryptKey(config, MainKey, pass)
        n  == newSession(ss, now, tokDraw)
    IN  IF d.err # Nil /\ key = NoBytes
        THEN /\ sessions' = ss
             /\ ret' = [NoRet EXCEPT !.op = "LogIn", !.err = d.err, !.pass = pass]
             /\ UNCHANGED <<stale, rest, config, delegate, key, now, ticks, nextTok, issued>>
        ELSE /\ sessions' = n.sessions
             /\ key' = IF n.err = Nil /\ d.err = Nil THEN d.key ELSE key
             /\ stale' = IF n.err = Nil /\ d.err = Nil THEN Drop(stale, key) ELSE stale
             /\ nextTok' = IF n.err = Nil THEN nextTok + 1 ELSE nextTok
             /\ ret' = [NoRet EXCEPT !.op = "LogIn", !.err = n.err, !.pass = pass,
                                     !.newtoken = n.token, !.ends = n.ends]
             /\ UNCHANGED <<rest, config, delegate, now, ticks, issued>>

LogIn(pass, tokDraw) ==
    LET ss == cleanSessions(sessions, now)
        d  == getAndDecryptKey(config, MainKey, pass)
        n  == newSession(ss, now, tokDraw)
    IN  IF d.err # Nil
        THEN /\ sessions' = ss
             /\ ret' = [NoRet EXCEPT !.op = "LogIn", !.err = d.err, !.pass = pass]
             /\ UNCHANGED <<stale, rest, config, delegate, key, now, ticks, nextTok, issued>>
        ELSE /\ sessions' = n.sessions
             /\ key' = IF n.err = Nil THEN d.key ELSE key
             /\ stale' = IF n.err = Nil THEN Drop(stale, key) ELSE stale
             /\ nextTok' = IF n.err = Nil THEN nextTok + 1 ELSE nextTok
             /\ ret' = [NoRet EXCEPT !.op = "LogIn", !.err = n.err, !.pass = pass,
                                     !.newtoken = n.token, !.ends = n.ends]
             /\ UNCHANGED <<rest, config, delegate, now, ticks, issued>>

\* mutant: the old token is dropped at once, without a handover time
RollTokenDrop(token, tokDraw) ==
    LET ss == cleanSessions(sessions, now)
    IN  IF token \in DOMAIN ss /\ ~ss[token].rolled /\ ss[token].expires > now
        THEN LET n == newSession(Delete(ss, token), now, tokDraw)
             IN  /\ sessions' = n.sessions
                 /\ nextTok' = IF n.err = Nil THEN nextTok + 1 ELSE nextTok
                 /\ ret' = [NoRet EXCEPT !.op = "RollToken", !.err = n.err,
                                         !.token = token, !.found = Lookup(sessions, token),
                                         !.newtoken = n.token,
                                         !.ends = n.ends]
                 /\ UNCHANGED <<stale, rest, config, delegate, key, now, ticks, issued>>
        ELSE /\ sessions' = Delete(ss, token)
             /\ ret' = [NoRet EXCEPT !.op = "RollToken", !.err = ErrBadToken,
                                     !.token = token, !.found = Lookup(sessions, token)]
             /\ UNCHANGED <<stale, rest, config, delegate, key, now, ticks, nextTok, issued>>

\* mutant: the old token is not marked rolled
RollTokenNoMark(token, tokDraw) ==
    LET ss == cleanSessions(sessions, now)
    IN  IF token \in DOMAIN ss /\ ~ss[token].rolled /\ ss[token].expires > now
        THEN LET n == newSession(ss, now, tokDraw)
             IN  /\ sessions' = n.sessions
                 /\ nextTok' = IF n.err = Nil THEN nextTok + 1 ELSE nextTok
                 /\ ret' = [NoRet EXCEPT !.op = "RollToken", !.err = n.err,
                                         !.token = token, !.found = Lookup(sessions, token),
                                         !.newtoken = n.token,
                                         !.ends = n.ends]
                 /\ UNCHANGED <<stale, rest, config, delegate, key, now, ticks, issued>>
        ELSE /\ sessions' = Delete(ss, token)
             /\ ret' = [NoRet EXCEPT !.op = "RollToken", !.err = ErrBadToken,
                                     !.token = token, !.found = Lookup(sessions, token)]
             /\ UNCHANGED <<stale, rest, config, delegate, key, now, ticks, nextTok, issued>>

\* mutant: a rejected token stays in the table
RollTokenKeep(token, tokDraw) ==
    LET ss == cleanSessions(sessions, now)
    IN  IF token \in DOMAIN ss /\ ~ss[token].rolled /\ ss[token].expires > now
        THEN LET n == newSession(Put(ss, token, Session(now + HandoverTime, TRUE)),
                                 now, tokDraw)
             IN  /\ sessions' = n.sessions
                 /\ nextTok' = IF n.err = Nil THEN nextTok + 1 ELSE nextTok
                 /\ ret' = [NoRet EXCEPT !.op = "RollToken", !.err = n.err,
                                         !.token = token, !.found = Lookup(sessions, token),
                                         !.newtoken = n.token,
                                         !.ends = n.ends]
                 /\ UNCHANGED <<stale, rest, config, delegate, key, now, ticks, issued>>
        ELSE /\ sessions' = ss
             /\ ret' = [NoRet EXCEPT !.op = "RollToken", !.err = ErrBadToken,
                                     !.token = token, !.found = Lookup(sessions, token)]
             /\ UNCHANGED <<stale, rest, config, delegate, key, now, ticks, nextTok, issued>>

RollToken(token, tokDraw) ==
    LET ss == cleanSessions(sessions, now)
    IN  IF token \in DOMAIN ss /\ ~ss[token].rolled /\ ss[token].expires > now
        THEN LET n == newSession(Put(ss, token, Session(now + HandoverTime, TRUE)),
                                 now, tokDraw)
             IN  /\ sessions' = n.sessions
                 /\ nextTok' = IF n.err = Nil THEN nextTok + 1 ELSE nextTok
                 /\ ret' = [NoRet EXCEPT !.op = "RollToken", !.err = n.err,
                                         !.token = token, !.found = Lookup(sessions, token), !.newtoken = n.token,
                                         !.ends = n.ends]
                 /\ UNCHANGED <<stale, rest, config, delegate, key, now, ticks, issued>>
        ELSE /\ sessions' = Delete(ss, token)
             /\ ret' = [NoRet EXCEPT !.op = "RollToken", !.err = ErrBadToken,
                                     !.token = token, !.found = Lookup(sessions, token)]
             /\ UNCHANGED <<stale, rest, config, delegate, key, now, ticks, nextTok, issued>>

\* mutant: logging out one token drops every session
LogOutAll(token) ==
    /\ sessions' = <<>>
    /\ key' = NoBytes
    /\ ret' = [NoRet EXCEPT !.op = "LogOut", !.token = token,
                            !.found = Lookup(sessions, token)]
    /\ UNCHANGED <<stale, rest, config, delegate, now, ticks, nextTok, issued>>

\* mutant: the cache slot is emptied without wiping the buffer
LogOutNoZero(token) ==
    LET ss == cleanSessions(Delete(sessions, token), now)
    IN  /\ sessions' = ss
        /\ key' = IF Cardinality(DOMAIN ss) < 1 THEN NoBytes ELSE key
        /\ stale' = IF Cardinality(DOMAIN ss) < 1 THEN Drop(stale, key) ELSE stale
        /\ ret' = [NoRet EXCEPT !.op = "LogOut", !.token = token,
                                !.found = Lookup(sessions, token)]
        /\ UNCHANGED <<rest, config, delegate, now, ticks, nextTok, issued>>

LogOut(token) ==
    LET ss == cleanSessions(Delete(sessions, token), now)
    IN  /\ sessions' = ss
        /\ key' = IF Cardinality(DOMAIN ss) < 1 THEN NoBytes ELSE key
        /\ stale' = IF Cardinality(DOMAIN ss) < 1 THEN Drop(stale, memZero(key))
                                                  ELSE stale
        /\ ret' = [NoRet EXCEPT !.op = "LogOut", !.token = token,
                                !.found = Lookup(sessions, token)]
        /\ UNCHANGED <<rest, config, delegate, now, ticks, nextTok, issued>>

\* mutant: the key is sealed again under the old password
ChangePasswordOld(password, newpass, saltDraw, nonceDraw) ==
    LET d == getAndDecryptKey(config, MainKey, password)
        s == encryptAndSetKey(config, MainKey, d.key, d.pub, password, TRUE, saltDraw, nonceDraw)
        err == IF d.err # Nil THEN d.err ELSE s.err
    IN  /\ config' = IF d.err = Nil THEN s.config ELSE config
        /\ ret' = [NoRet EXCEPT !.op = "ChangePassword", !.err = err,
                                !.pass = password, !.newpass = newpass]
        /\ UNCHANGED <<stale, rest, delegate, sessions, key, now, ticks, nextTok, issued>>

\* mutant: the record is written before the old password has been checked
ChangePasswordWriteFirst(password, newpass, saltDraw, nonceDraw) ==
    LET d == getAndDecryptKey(config, MainKey, password)
        s == encryptAndSetKey(config, MainKey, d.key, d.pub, newpass, TRUE, saltDraw, nonceDraw)
        err == IF d.err # Nil THEN d.err ELSE s.err
    IN  /\ config' = s.config
        /\ ret' = [NoRet EXCEPT !.op = "ChangePassword", !.err = err,
                                !.pass = password, !.newpass = newpass]
        /\ UNCHANGED <<stale, rest, delegate, sessions, key, now, ticks, nextTok, issued>>

ChangePassword(password, newpass, saltDraw, nonceDraw) ==
    LET d == getAndDecryptKey(config, MainKey, password)
        s == encryptAndSetKey(config, MainKey, d.key, d.pub, newpass, TRUE, saltDraw, nonceDraw)
        err == IF d.err # Nil THEN d.err ELSE s.err
    IN  /\ config' = IF d.err = Nil THEN s.config ELSE config
        /\ ret' = [NoRet EXCEPT !.op = "ChangePassword", !.err = err,
                                !.pass = password, !.newpass = newpass]
        /\ UNCHANGED <<stale, rest, delegate, sessions, key, now, ticks, nextTok, issued>>

\* mutant: a recovery ends every session and empties the cache
RecoverPasswordLogsOut(mnemonic, newpass, saltDraw, nonceDraw) ==
    LET p == GetKeyPub(config, MainKey)
        sd == SeedFromMnemonic(mnemonic, "")
        m == Bip32MasterFromSeed(sd.seed)
        s == encryptAndSetKey(config, MainKey, EncodeWIF(m.key), p.pub, newpass, TRUE,
                              saltDraw, nonceDraw)
        err == IF p.err # Nil THEN ErrNoKey
               ELSE IF sd.err # Nil THEN sd.err
               ELSE IF m.err # Nil THEN ErrWrongMnemonic
               ELSE IF p.pub # GetECPubKey(m.key) THEN ErrWrongMnemonic
               ELSE s.err
        stored == p.err = Nil /\ sd.err = Nil /\ m.err = Nil /\ p.pub = GetECPubKey(m.key)
    IN  /\ config' = IF stored THEN s.config ELSE config
        /\ sessions' = IF err = Nil THEN <<>> ELSE sessions
        /\ key' = IF err = Nil THEN NoBytes ELSE key
        /\ ret' = [NoRet EXCEPT !.op = "RecoverPassword", !.err = err,
                                !.mnemonic = mnemonic, !.newpass = newpass]
        /\ UNCHANGED <<stale, rest, delegate, now, ticks, nextTok, issued>>

\* mutant: the pub of the mnemonic is stored without comparing it
RecoverPasswordNewPub(mnemonic, newpass, saltDraw, nonceDraw) ==
    LET p == GetKeyPub(config, MainKey)
        sd == SeedFromMnemonic(mnemonic, "")
        m == Bip32MasterFromSeed(sd.seed)
        s == encryptAndSetKey(config, MainKey, EncodeWIF(m.key), GetECPubKey(m.key),
                              newpass, TRUE, saltDraw, nonceDraw)
        err == IF p.err # Nil THEN ErrNoKey
               ELSE IF sd.err # Nil THEN sd.err
               ELSE IF m.err # Nil THEN ErrWrongMnemonic
               ELSE s.err
        stored == p.err = Nil /\ sd.err = Nil /\ m.err = Nil
    IN  /\ config' = IF stored THEN s.config ELSE config
        /\ ret' = [NoRet EXCEPT !.op = "RecoverPassword", !.err = err,
                                !.mnemonic = mnemonic, !.newpass = newpass]
        /\ UNCHANGED <<stale, rest, delegate, sessions, key, now, ticks, nextTok, issued>>

\* mutant: the pub of the mnemonic is not compared with the stored pub
RecoverPasswordNoCheck(mnemonic, newpass, saltDraw, nonceDraw) ==
    LET p == GetKeyPub(config, MainKey)
        sd == SeedFromMnemonic(mnemonic, "")
        m == Bip32MasterFromSeed(sd.seed)
        s == encryptAndSetKey(config, MainKey, EncodeWIF(m.key), p.pub, newpass, TRUE,
                              saltDraw, nonceDraw)
        err == IF p.err # Nil THEN ErrNoKey
               ELSE IF sd.err # Nil THEN sd.err
               ELSE IF m.err # Nil THEN ErrWrongMnemonic
               ELSE s.err
        stored == p.err = Nil /\ sd.err = Nil /\ m.err = Nil
    IN  /\ config' = IF stored THEN s.config ELSE config
        /\ ret' = [NoRet EXCEPT !.op = "RecoverPassword", !.err = err,
                                !.mnemonic = mnemonic, !.newpass = newpass]
        /\ UNCHANGED <<stale, rest, delegate, sessions, key, now, ticks, nextTok, issued>>

RecoverPassword(mnemonic, newpass, saltDraw, nonceDraw) ==
    LET p == GetKeyPub(config, MainKey)
        sd == SeedFromMnemonic(mnemonic, "")
        m == Bip32MasterFromSeed(sd.seed)
        s == encryptAndSetKey(config, MainKey, EncodeWIF(m.key), p.pub, newpass, TRUE,
                              saltDraw, nonceDraw)
        err == IF p.err # Nil THEN ErrNoKey
               ELSE IF sd.err # Nil THEN sd.err
               ELSE IF m.err # Nil THEN ErrWrongMnemonic
               ELSE IF p.pub # GetECPubKey(m.key) THEN ErrWrongMnemonic
               ELSE s.err
        stored == p.err = Nil /\ sd.err = Nil /\ m.err = Nil /\ p.pub = GetECPubKey(m.key)
    IN  /\ config' = IF stored THEN s.config ELSE config
        /\ ret' = [NoRet EXCEPT !.op = "RecoverPassword", !.err = err,
                                !.mnemonic = mnemonic, !.newpass = newpass]
        /\ UNCHANGED <<stale, rest, delegate, sessions, key, now, ticks, nextTok, issued>>

\* mutant: the lazily created record holds the child's public key
MakeDelegateStoresPub(id, token) ==
    LET ss == cleanSessions(sessions, now)
        m  == DecodeBip32WIF(key)
        pupKey == PrivateCKD(m.key, <<Hardened(1000), Hardened(2)>>)
        g  == GetDelegatePub(delegate, id)
        keyIndex == IF g.err = Nil THEN g.keyid ELSE GetMaxDelegate(delegate) + 1
        child == PrivateCKD(pupKey, <<Hardened(keyIndex)>>)
        s  == SetDelegate(delegate, id, Empty, Empty, NoBytes, GetECPubKey(child), keyIndex)
    IN  /\ sessions' = ss
        /\ IF token \in DOMAIN ss /\ key # NoBytes
           THEN IF m.err # Nil
                THEN /\ ret' = [NoRet EXCEPT !.op = "MakeDelegate", !.err = ErrBadKey,
                                             !.id = id, !.token = token,
                                             !.found = Lookup(sessions, token)]
                     /\ UNCHANGED delegate
                ELSE /\ delegate' = IF g.err = Nil THEN delegate ELSE s.delegate
                     /\ ret' = [NoRet EXCEPT !.op = "MakeDelegate", !.id = id,
                                             !.token = token,
                                             !.found = Lookup(sessions, token),
                                             !.privkey = GetECPrivKey(child),
                                             !.pubkey = GetECPubKey(child),
                                             !.wif = EncodeWIF(child)]
           ELSE /\ ret' = [NoRet EXCEPT !.op = "MakeDelegate", !.err = ErrBadToken,
                                        !.id = id, !.token = token,
                                             !.found = Lookup(sessions, token)]
                /\ UNCHANGED delegate
        /\ UNCHANGED <<stale, rest, config, key, now, ticks, nextTok, issued>>

\* mutant: every call derives at the next free key index
MakeDelegateRotate(id, token) ==
    LET ss == cleanSessions(sessions, now)
        m  == DecodeBip32WIF(key)
        pupKey == PrivateCKD(m.key, <<Hardened(1000), Hardened(2)>>)
        g  == GetDelegatePub(delegate, id)
        keyIndex == GetMaxDelegate(delegate) + 1
        s  == SetDelegate(delegate, id, Empty, Empty, NoBytes, NoBytes, keyIndex)
        child == PrivateCKD(pupKey, <<Hardened(keyIndex)>>)
    IN  /\ sessions' = ss
        /\ IF token \in DOMAIN ss /\ key # NoBytes
           THEN IF m.err # Nil
                THEN /\ ret' = [NoRet EXCEPT !.op = "MakeDelegate", !.err = ErrBadKey,
                                             !.id = id, !.token = token,
                                             !.found = Lookup(sessions, token)]
                     /\ UNCHANGED delegate
                ELSE /\ delegate' = IF g.err = Nil THEN delegate ELSE s.delegate
                     /\ ret' = [NoRet EXCEPT !.op = "MakeDelegate", !.id = id,
                                             !.token = token,
                                             !.found = Lookup(sessions, token),
                                             !.privkey = GetECPrivKey(child),
                                             !.pubkey = GetECPubKey(child),
                                             !.wif = EncodeWIF(child)]
           ELSE /\ ret' = [NoRet EXCEPT !.op = "MakeDelegate", !.err = ErrBadToken,
                                        !.id = id, !.token = token,
                                             !.found = Lookup(sessions, token)]
                /\ UNCHANGED delegate
        /\ UNCHANGED <<stale, rest, config, key, now, ticks, nextTok, issued>>

MakeDelegate(id, token) ==
    LET ss == cleanSessions(sessions, now)
        m  == DecodeBip32WIF(key)
        pupKey == PrivateCKD(m.key, <<Hardened(1000), Hardened(2)>>)
        g  == GetDelegatePub(delegate, id)
        keyIndex == IF g.err = Nil THEN g.keyid ELSE GetMaxDelegate(delegate) + 1
        s  == SetDelegate(delegate, id, Empty, Empty, NoBytes, NoBytes, keyIndex)
        child == PrivateCKD(pupKey, <<Hardened(keyIndex)>>)
    IN  /\ sessions' = ss
        /\ IF token \in DOMAIN ss /\ key # NoBytes
           THEN IF m.err # Nil
                THEN /\ ret' = [NoRet EXCEPT !.op = "MakeDelegate", !.err = ErrBadKey,
                                             !.id = id, !.token = token,
                                             !.found = Lookup(sessions, token)]
                     /\ UNCHANGED delegate
                ELSE /\ delegate' = IF g.err = Nil THEN delegate ELSE s.delegate
                     /\ ret' = [NoRet EXCEPT !.op = "MakeDelegate", !.id = id,
                                             !.token = token,
                                             !.found = Lookup(sessions, token),
                                             !.privkey = GetECPrivKey(child),
                                             !.pubkey = GetECPubKey(child),
                                             !.wif = EncodeWIF(child)]
           ELSE /\ ret' = [NoRet EXCEPT !.op = "MakeDelegate", !.err = ErrBadToken,
                                        !.id = id, !.token = token,
                                             !.found = Lookup(sessions, token)]
                /\ UNCHANGED delegate
        /\ UNCHANGED <<stale, rest, config, key, now, ticks, nextTok, issued>>

\* mutant: the call wipes the cached master with its own copy
CreateDelegateClearsCache(id, pass, tokDraw, saltDraw, nonceDraw) ==
    LET d == getAndDecryptKey(config, MainKey, pass)
        m == DecodeBip32WIF(d.key)
        pupKey == PrivateCKD(m.key, <<Hardened(1000), Hardened(2)>>)
        keyIndex == GetMaxDelegate(delegate) + 1
        child == PrivateCKD(pupKey, <<Hardened(keyIndex)>>)
        e == encryptKey(EncodeWIF(child), tokDraw, saltDraw, nonceDraw)
        pub == GetECPubKey(child)
        s == SetDelegate(delegate, id, e.salt, e.nonce, e.enc, pub, keyIndex)
        err == IF d.err # Nil THEN d.err
               ELSE IF m.err # Nil THEN ErrBadKey
               ELSE IF tokDraw = RngFail THEN ErrOutOfEntropy
               ELSE IF e.err # Nil THEN e.err
               ELSE s.err
    IN  /\ delegate' = IF err = Nil THEN s.delegate ELSE delegate
        /\ nextTok' = IF err = Nil THEN nextTok + 1 ELSE nextTok
        /\ ret' = [NoRet EXCEPT !.op = "CreateDelegate", !.err = err, !.id = id,
                                !.pass = pass,
                                !.newtoken = IF err = Nil THEN tokDraw ELSE NoToken,
                                !.pubkey = IF err = Nil THEN pub ELSE NoBytes]
        /\ key' = memZero(key)
        /\ UNCHANGED <<stale, rest, config, sessions, now, ticks, issued>>

\* the delegate token is the password of the child's envelope; a token that
\* was drawn and thrown away with the failed call is drawn again
CreateDelegate(id, pass, tokDraw, saltDraw, nonceDraw) ==
    LET d == getAndDecryptKey(config, MainKey, pass)
        m == DecodeBip32WIF(d.key)
        pupKey == PrivateCKD(m.key, <<Hardened(1000), Hardened(2)>>)
        keyIndex == GetMaxDelegate(delegate) + 1
        child == PrivateCKD(pupKey, <<Hardened(keyIndex)>>)
        e == encryptKey(EncodeWIF(child), tokDraw, saltDraw, nonceDraw)
        pub == GetECPubKey(child)
        s == SetDelegate(delegate, id, e.salt, e.nonce, e.enc, pub, keyIndex)
        err == IF d.err # Nil THEN d.err
               ELSE IF m.err # Nil THEN ErrBadKey
               ELSE IF tokDraw = RngFail THEN ErrOutOfEntropy
               ELSE IF e.err # Nil THEN e.err
               ELSE s.err
    IN  /\ delegate' = IF err = Nil THEN s.delegate ELSE delegate
        /\ nextTok' = IF err = Nil THEN nextTok + 1 ELSE nextTok
        /\ ret' = [NoRet EXCEPT !.op = "CreateDelegate", !.err = err, !.id = id,
                                !.pass = pass,
                                !.newtoken = IF err = Nil THEN tokDraw ELSE NoToken,
                                !.pubkey = IF err = Nil THEN pub ELSE NoBytes]
        /\ UNCHANGED <<stale, rest, config, sessions, key, now, ticks, issued>>

\* (*keyMgr).GetDelegatePub
KeyMgrGetDelegatePub(id) ==
    LET g == GetDelegatePub(delegate, id)
    IN  /\ ret' = [NoRet EXCEPT !.op = "GetDelegatePub", !.err = g.err, !.id = id,
                                !.pubkey = g.pub]
        /\ UNCHANGED <<stale, rest, config, delegate, sessions, key, now, ticks,
                       nextTok, issued>>

\* (*keyMgr).GetDelegatePriv
KeyMgrGetDelegatePriv(id, token) ==
    LET g == GetDelegatePriv(delegate, id)
        d == decryptKey(g.s1, g.s2, g.enc, token)
        err == IF g.err # Nil THEN g.err
               ELSE IF d.err = ErrWrongPassword THEN ErrWrongToken
               ELSE d.err
    IN  /\ ret' = [NoRet EXCEPT !.op = "GetDelegatePriv", !.err = err, !.id = id,
                                !.token = token,
                                !.privkey = IF err = Nil THEN d.key ELSE NoBytes,
                                !.pubkey = IF err = Nil THEN g.pub ELSE NoBytes]
        /\ UNCHANGED <<stale, rest, config, delegate, sessions, key, now, ticks,
                       nextTok, issued>>

\* time passes between two calls
Tick(d) ==
    /\ ticks < MaxTicks
    /\ now' = now + d
    /\ ticks' = ticks + 1
    /\ UNCHANGED <<stale, rest, config, delegate, sessions, key, nextTok, issued, ret>>

\* ------------------------------------------------------- inputs of the run
BadRuns == {0, MaxAttempts}
Mnemonics ==
    {MnemonicOf(e) : e \in 1..Rejected}
        \cup {<<1>>, <<1, BadWord>>, <<1, (Checksum(1) + 1) % (Rejected + 1)>>}
Minted == 0..(nextTok - 1)

\* The master record's life: every password, mnemonic and random draw, with
\* the clock standing still.
KeyNext ==
    \/ \E p \in Passwords, b \in BadRuns, e \in Entropies, s \in Draws, n \in Draws :
           CreateKey(p, b, e, s, n)
    \/ \E p \in Passwords, t \in TokenDraws : LogIn(p, t)
    \/ \E p \in Passwords, q \in Passwords, s \in Draws, n \in Draws :
           ChangePassword(p, q, s, n)
    \/ \E m \in Mnemonics, q \in Passwords, s \in Draws, n \in Draws :
           RecoverPassword(m, q, s, n)

SpecKey == Init /\ [][KeyNext]_vars

\* The session table's life: one master key, every token and every delay.
SessNext ==
    \/ CreateKey("suchpass", 0, 1, 1, 1)
    \/ \E p \in Passwords, t \in TokenDraws : LogIn(p, t)
    \/ \E t \in Minted, d \in TokenDraws : RollToken(t, d)
    \/ \E t \in Minted : LogOut(t)
    \/ \E i \in Pups, t \in Minted : MakeDelegate(i, t)
    \/ \E d \in Steps : Tick(d)

SpecSession == Init /\ [][SessNext]_vars

\* The delegate table's life: one master key, a session to mint under, every
\* pup id and every token, with the clock standing still.
DlgPups  == 1..(MaxPup + 1)
DlgDraws == {RngFail, 1}

DlgNext ==
    \/ CreateKey("suchpass", 0, 1, 1, 1)
    \/ \E t \in TokenDraws : LogIn("suchpass", t)
    \/ \E i \in DlgPups, p \in Passwords, t \in TokenDraws, s \in DlgDraws, n \in DlgDraws :
           CreateDelegate(i, p, t, s, n)
    \/ \E i \in DlgPups : KeyMgrGetDelegatePub(i)
    \/ \E i \in DlgPups, t \in Minted : KeyMgrGetDelegatePriv(i, t)
    \/ \E i \in DlgPups, t \in Minted : MakeDelegate(i, t)

SpecDelegate == Init /\ [][DlgNext]_vars

\* ---------------------------------------------- concurrent CreateDelegate
\* Every call runs in a goroutine of its own.  The store is opened with
\* db.SetMaxOpenConns(1): db.Begin waits until the one connection is free.
MaxOpenConns == 1

Callers == 1..MaxTokens             \* one CreateDelegate call each
InTxn   == {"began", "read", "inserted", "failed"}

\* mutant: db.Begin never waits
ConnFreeAlways(ps) == TRUE

ConnFree(ps) ==
    Cardinality({q \in DOMAIN ps : ps[q].pc \in InTxn}) < MaxOpenConns

\* the records MakeDelegate left for the pups 1..k in an earlier run
Earlier(k) == {DelegateRow(i, Empty, Empty, NoBytes, NoBytes, i) : i \in 1..k}

\* the key manager constructed over a database file that holds the master
\* record and the records of k pups; no call has begun
InitTxn ==
    /\ config = encryptAndSetKey({}, MainKey, generateMnemonic(0, 1).key,
                                 generateMnemonic(0, 1).pub, "suchpass", FALSE,
                                 1, 1).config
    /\ \E k \in 0..MaxPup : delegate = Earlier(k)
    /\ sessions = <<>>
    /\ key = NoBytes
    /\ now = 0
    /\ ticks = 0
    /\ nextTok = 1
    /\ issued = MnemonicOf(1)
    /\ ret = NoRet
    /\ stale = {}
    /\ procs = [p \in Callers |->
                   [pc |-> "idle", id |-> MaxPup + p, pass |-> "", max |-> 0,
                    err |-> Nil]]
    /\ env = NoEnv

TxnFrame == UNCHANGED <<config, sessions, key, now, ticks, issued, ret, stale, env>>

\* CreateDelegate up to the call of Transaction: GetKey in a transaction of
\* its own, decrypt, decode, derive the pup key
TxnGetKey(p, pass) ==
    LET d == getAndDecryptKey(config, MainKey, pass)
        m == DecodeBip32WIF(d.key)
        err == IF d.err # Nil THEN d.err
               ELSE IF m.err # Nil THEN ErrBadKey
               ELSE Nil
    IN  /\ procs[p].pc = "idle"
        /\ ConnFree(procs)
        /\ procs' = [procs EXCEPT ![p].pc = IF err = Nil THEN "ready" ELSE "done",
                                  ![p].pass = pass, ![p].err = err]
        /\ UNCHANGED <<delegate, nextTok>>
        /\ TxnFrame

\* doTxn: db.Begin
TxnBegin(p) ==
    /\ procs[p].pc = "ready"
    /\ ConnFree(procs)
    /\ procs' = [procs EXCEPT ![p].pc = "began"]
    /\ UNCHANGED <<delegate, nextTok>>
    /\ TxnFrame

\* tx.GetMaxDelegate
TxnGetMax(p) ==
    /\ procs[p].pc = "began"
    /\ procs' = [procs EXCEPT ![p].pc = "read", ![p].max = GetMaxDelegate(delegate)]
    /\ UNCHANGED <<delegate, nextTok>>
    /\ TxnFrame

\* derive the child, draw the token, seal, tx.SetDelegate
TxnSetDelegate(p, tokDraw, saltDraw, nonceDraw) ==
    LET m == DecodeBip32WIF(getAndDecryptKey(config, MainKey, procs[p].pass).key)
        pupKey == PrivateCKD(m.key, <<Hardened(1000), Hardened(2)>>)
        keyIndex == procs[p].max + 1
        child == PrivateCKD(pupKey, <<Hardened(keyIndex)>>)
        e == encryptKey(EncodeWIF(child), tokDraw, saltDraw, nonceDraw)
        s == SetDelegate(delegate, procs[p].id, e.salt, e.nonce, e.enc,
                         GetECPubKey(child), keyIndex)
        err == IF tokDraw = RngFail THEN ErrOutOfEntropy
               ELSE IF e.err # Nil THEN e.err
               ELSE s.err
    IN  /\ procs[p].pc = "read"
        /\ delegate' = IF err = Nil THEN s.delegate ELSE delegate
        /\ nextTok' = IF err = Nil THEN nextTok + 1 ELSE nextTok
        /\ procs' = [procs EXCEPT ![p].pc = IF err = Nil THEN "inserted" ELSE "failed",
                                  ![p].err = err]
        /\ TxnFrame

\* doTxn: tx.Commit
TxnCommit(p) ==
    /\ procs[p].pc = "inserted"
    /\ procs' = [procs EXCEPT ![p].pc = "done"]
    /\ UNCHANGED <<delegate, nextTok>>
    /\ TxnFrame

\* doTxn: the work function returned an error, the deferred tx.Rollback runs
TxnRollback(p) ==
    /\ procs[p].pc = "failed"
    /\ procs' = [procs EXCEPT ![p].pc = "done"]
    /\ UNCHANGED <<delegate, nextTok>>
    /\ TxnFrame


TxnNext ==
    \/ \E p \in Callers, w \in Passwords : TxnGetKey(p, w)
    \/ \E p \in Callers : TxnBegin(p)
    \/ \E p \in Callers : TxnGetMax(p)
    \/ \E p \in Callers, t \in TokenDraws, s \in DlgDraws, n \in DlgDraws :
           TxnSetDelegate(p, t, s, n)
    \/ \E p \in Callers : TxnCommit(p)
    \/ \E p \in Callers : TxnRollback(p)

SpecTxn == InitTxn /\ [][TxnNext]_vars

\* ------------------------------------------- concurrent LogIn and LogOut
\* net/http serves every request in a goroutine of its own, and keyMgr holds
\* no lock: the statements of two calls on km.sessions and km.key interleave.
Racers == 1..2

InitRace ==
    /\ config = encryptAndSetKey({}, MainKey, generateMnemonic(0, 1).key,
                                 generateMnemonic(0, 1).pub, "suchpass", FALSE,
                                 1, 1).config
    /\ delegate = {}
    /\ sessions = <<>>
    /\ key = NoBytes
    /\ now = 0
    /\ ticks = 0
    /\ nextTok = 1
    /\ issued = MnemonicOf(1)
    /\ ret = NoRet
    /\ stale = {}
    /\ procs = [p \in Racers |-> [pc |-> "idle", token |-> NoToken]]
    /\ env = NoEnv

RaceFrame == UNCHANGED <<config, delegate, now, ticks, issued, env>>

\* LogIn: cleanSessions, getAndDecryptKey
RaceLogInBegin(p, pass) ==
    LET d == getAndDecryptKey(config, MainKey, pass)
    IN  /\ procs[p].pc = "idle"
        /\ sessions' = cleanSessions(sessions, now)
        /\ IF d.err # Nil
           THEN /\ ret' = [NoRet EXCEPT !.op = "LogIn", !.err = d.err, !.pass = pass]
                /\ UNCHANGED procs
           ELSE /\ procs' = [procs EXCEPT ![p].pc = "login_session"]
                /\ UNCHANGED ret
        /\ UNCHANGED <<key, stale, nextTok>>
        /\ RaceFrame

\* LogIn: newSession writes km.sessions[token]
RaceLogInSession(p, tokDraw) ==
    LET n == newSession(sessions, now, tokDraw)
    IN  /\ procs[p].pc = "login_session"
        /\ sessions' = n.sessions
        /\ nextTok' = IF n.err = Nil THEN nextTok + 1 ELSE nextTok
        /\ IF n.err # Nil
           THEN /\ procs' = [procs EXCEPT ![p].pc = "idle"]
                /\ ret' = [NoRet EXCEPT !.op = "LogIn", !.err = n.err,
                                        !.pass = "suchpass"]
           ELSE /\ procs' = [procs EXCEPT ![p].pc = "login_cache",
                                          ![p].token = n.token]
                /\ UNCHANGED ret
        /\ UNCHANGED <<key, stale>>
        /\ RaceFrame

\* LogIn: km.key = key
RaceLogInCache(p) ==
    /\ procs[p].pc = "login_cache"
    /\ key' = getAndDecryptKey(config, MainKey, "suchpass").key
    /\ stale' = Drop(stale, key)
    /\ procs' = [procs EXCEPT ![p].pc = "idle", ![p].token = NoToken]
    /\ ret' = [NoRet EXCEPT !.op = "LogIn", !.pass = "suchpass",
                            !.newtoken = procs[p].token, !.ends = SessionTime]
    /\ UNCHANGED <<sessions, nextTok>>
    /\ RaceFrame

\* LogOut: delete(km.sessions, token)
RaceLogOutDelete(p, token) ==
    /\ procs[p].pc = "idle"
    /\ sessions' = Delete(sessions, token)
    /\ procs' = [procs EXCEPT ![p].pc = "logout_clean", ![p].token = token]
    /\ UNCHANGED <<key, stale, nextTok, ret>>
    /\ RaceFrame

\* LogOut: cleanSessions, then the test len(km.sessions) < 1
RaceLogOutClean(p) ==
    LET ss == cleanSessions(sessions, now)
    IN  /\ procs[p].pc = "logout_clean"
        /\ sessions' = ss
        /\ IF Cardinality(DOMAIN ss) < 1
           THEN /\ procs' = [procs EXCEPT ![p].pc = "logout_zero"]
                /\ UNCHANGED ret
           ELSE /\ procs' = [procs EXCEPT ![p].pc = "idle", ![p].token = NoToken]
                /\ ret' = [NoRet EXCEPT !.op = "LogOut", !.token = procs[p].token]
        /\ UNCHANGED <<key, stale, nextTok>>
        /\ RaceFrame

\* LogOut: memZero(km.key); km.key = nil
RaceLogOutZero(p) ==
    /\ procs[p].pc = "logout_zero"
    /\ stale' = Drop(stale, memZero(key))
    /\ key' = NoBytes
    /\ procs' = [procs EXCEPT ![p].pc = "idle", ![p].token = NoToken]
    /\ ret' = [NoRet EXCEPT !.op = "LogOut", !.token = procs[p].token]
    /\ UNCHANGED <<sessions, nextTok>>
    /\ RaceFrame

\* the Go runtime finds a map write under way while another goroutine writes
\* or iterates the map, and ends the process ("concurrent map writes",
\* "concurrent map iteration and map write")
RaceFatal ==
    /\ \E p \in Racers, q \in Racers :
           /\ p # q
           /\ procs[p].pc = "login_session"
           /\ procs[q].pc \in {"login_session", "logout_clean"}
    /\ procs' = [p \in Racers |-> [procs[p] EXCEPT !.pc = "fatal"]]
    /\ UNCHANGED <<sessions, key, stale, nextTok, ret>>
    /\ RaceFrame


RaceNext ==
    \/ \E p \in Racers, w \in Passwords : RaceLogInBegin(p, w)
    \/ \E p \in Racers, t \in TokenDraws : RaceLogInSession(p, t)
    \/ \E p \in Racers : RaceLogInCache(p)
    \/ \E p \in Racers, t \in Minted : RaceLogOutDelete(p, t)
    \/ \E p \in Racers : RaceLogOutClean(p)
    \/ \E p \in Racers : RaceLogOutZero(p)
    \/ RaceFatal

SpecRace == InitRace /\ [][RaceNext]_vars

\* ------------------------------------------------- the envelope by itself
\* encryptKey and decryptKey as functions: the secrets are the WIF texts the
\* key manager seals (a master, the children of the pups), the passwords any
\* strings.
Secrets ==
    {generateMnemonic(0, e).key : e \in 1..MaxEntropy}
        \cup {EncodeWIF(PrivateCKD(DecodeBip32WIF(generateMnemonic(0, 1).key).key,
                                   <<Hardened(1000), Hardened(2), Hardened(k)>>)) :
                 k \in DlgPups}
EnvPasswords == Passwords \cup {""}

InitEnvelope ==
    /\ config = {}
    /\ delegate = {}
    /\ sessions = <<>>
    /\ key = NoBytes
    /\ now = 0
    /\ ticks = 0
    /\ nextTok = 1
    /\ issued = <<>>
    /\ ret = NoRet
    /\ stale = {}
    /\ procs = <<>>
    /\ \E x \in Secrets, w \in EnvPasswords :
           env = [phase |-> "input", secret |-> x, pass |-> w]

EnvFrame ==
    UNCHANGED <<config, delegate, sessions, key, now, ticks, nextTok, issued, ret,
                stale, procs>>

EnvSeal(saltDraw, nonceDraw) ==
    LET e == encryptKey(env.secret, env.pass, saltDraw, nonceDraw)
    IN  /\ env.phase = "input"
        /\ env' = [phase |-> "sealed", secret |-> env.secret, pass |-> env.pass,
                   err |-> e.err, salt |-> e.salt, nonce |-> e.nonce, enc |-> e.enc]
        /\ EnvFrame

EnvOpen(pass2) ==
    LET d == decryptKey(env.salt, env.nonce, env.enc, pass2)
    IN  /\ env.phase = "sealed"
        /\ env.err = Nil
        /\ env' = [phase |-> "opened", secret |-> env.secret, pass |-> env.pass,
                   salt |-> env.salt, nonce |-> env.nonce, enc |-> env.enc,
                   pass2 |-> pass2, err |-> d.err, opened |-> d.key]
        /\ EnvFrame


EnvNext ==
    \/ \E s \in Draws, n \in Draws : EnvSeal(s, n)
    \/ \E w \in EnvPasswords : EnvOpen(w)

SpecEnvelope == InitEnvelope /\ [][EnvNext]_vars

\* ------------------------------------------------- the whole interface
\* The operations of KeyMgr that write, called one after the other in any
\* order, with
\* right and wrong passwords, mnemonics and tokens, failing and delivering
\* random reads, and the clock standing still.
KmMnemonics == {MnemonicOf(1), MnemonicOf(Foreign), <<1>>}

\* generateMnemonic's run: <<rejected seeds, entropy draw>>
KmEntropy == {<<0, RngFail>>, <<0, 1>>, <<MaxAttempts, 1>>}

\* encryptKey's reads: <<salt draw, nonce draw>>
KmSeal == {<<RngFail, 1>>, <<1, RngFail>>, <<1, 1>>}

KmNext ==
    \/ \E p \in Passwords, g \in KmEntropy, d \in KmSeal :
           CreateKey(p, g[1], g[2], d[1], d[2])
    \/ \E p \in Passwords, t \in TokenDraws : LogIn(p, t)
    \/ \E t \in Minted, d \in TokenDraws : RollToken(t, d)
    \/ \E t \in Minted : LogOut(t)
    \/ \E p \in Passwords, q \in Passwords, d \in KmSeal :
           ChangePassword(p, q, d[1], d[2])
    \/ \E m \in KmMnemonics, q \in Passwords, d \in KmSeal :
           RecoverPassword(m, q, d[1], d[2])
    \/ \E i \in Pups, p \in Passwords, t \in TokenDraws, d \in KmSeal :
           CreateDelegate(i, p, t, d[1], d[2])
    \/ \E i \in Pups, t \in Minted : MakeDelegate(i, t)

SpecKeyMgr == Init /\ [][KmNext]_vars

\* ------------------------------------------------ doTxn and its retry loop
\* One call of Transaction(work) at a time on the store the key manager was
\* given.  procs is the call: where it stands in doTxn (pc), the rows work
\* inserts (work) and the next one (at), the countdown (limit), the number of
\* db.Begin calls made (begins), the transactions begun and neither committed
\* nor rolled back (open), the rows the current transaction sees (view), the
\* error returned (err) and the store's context (ctx).  Other processes that
\* share the database file are the source of the conflicts.
ErrDBConflict == "ErrDBConflict"
ErrStore      == "store error"      \* any other error of the driver
RetryLimit    == 120

Outcomes == {Nil, ErrDBConflict, ErrStore}

IsConflict(err) == err = ErrDBConflict

\* the work functions: one or two inserts into table delegate
Works == {<<a>> : a \in DlgPups} \cup {<<a, b>> : a \in DlgPups, b \in DlgPups}

NoCall ==
    [pc |-> "idle", work |-> <<>>, at |-> 1, limit |-> RetryLimit, begins |-> 0,
     open |-> 0, view |-> {}, err |-> Nil, ctx |-> "live"]

InitRetry ==
    /\ config = {}
    /\ \E k \in 0..MaxPup : delegate = Earlier(k)
    /\ sessions = <<>>
    /\ key = NoBytes
    /\ now = 0
    /\ ticks = 0
    /\ nextTok = 1
    /\ issued = <<>>
    /\ ret = NoRet
    /\ stale = {}
    /\ procs = NoCall
    /\ env = NoEnv

RetryFrame ==
    UNCHANGED <<config, sessions, key, now, ticks, nextTok, issued, ret, stale, env>>

\* doTxn returns err: the deferred tx.Rollback of every transaction it began
\* runs now
DoTxnReturn(err) ==
    [procs EXCEPT !.pc = "done", !.err = err, !.open = 0, !.view = {}]

\* Transaction(work) on the store context: doTxn is entered with s.tx = nil
Transaction(w) ==
    /\ procs.pc \in {"idle", "done"}
    /\ procs' = [NoCall EXCEPT !.pc = "begin", !.work = w, !.ctx = procs.ctx]
    /\ UNCHANGED delegate
    /\ RetryFrame

\* db.Begin: waits for a free connection under context.Background()
DoTxnBegin(out) ==
    /\ procs.pc = "begin"
    /\ procs.open < MaxOpenConns
    /\ procs' =
           IF out = Nil
           THEN [procs EXCEPT !.pc = "work", !.at = 1, !.begins = @ + 1,
                              !.open = @ + 1, !.view = delegate]
           ELSE IF IsConflict(out)
           THEN [procs EXCEPT !.pc = "sleep", !.begins = @ + 1]
           ELSE [DoTxnReturn(out) EXCEPT !.begins = @ + 1]
    /\ UNCHANGED delegate
    /\ RetryFrame

\* mutant: a store call made through the transaction view commits by itself
DoTxnWorkAutocommit(out) ==
    LET s == SetDelegate(delegate, procs.work[procs.at], Empty, Empty, NoBytes,
                         NoBytes, GetMaxDelegate(delegate) + 1)
    IN  /\ procs.pc = "work"
        /\ procs' =
               IF out = Nil /\ s.err = Nil
               THEN [procs EXCEPT !.at = @ + 1, !.view = s.delegate,
                                  !.pc = IF procs.at = Len(procs.work)
                                         THEN "commit" ELSE "work"]
               ELSE IF out = Nil THEN DoTxnReturn(s.err)
               ELSE IF IsConflict(out) THEN [procs EXCEPT !.pc = "sleep"]
               ELSE DoTxnReturn(out)
        /\ delegate' = IF out = Nil THEN s.delegate ELSE delegate
        /\ RetryFrame

\* work(tx), one store call at a time: tx.SetDelegate enters doTxn with s.tx
\* set and runs its statement on that transaction.  A conflict makes doTxn
\* sleep and go round the loop with the transaction still open.
DoTxnWork(out) ==
    LET s == SetDelegate(procs.view, procs.work[procs.at], Empty, Empty, NoBytes,
                         NoBytes, GetMaxDelegate(procs.view) + 1)
    IN  /\ procs.pc = "work"
        /\ procs' =
               IF out = Nil /\ s.err = Nil
               THEN [procs EXCEPT !.at = @ + 1, !.view = s.delegate,
                                  !.pc = IF procs.at = Len(procs.work)
                                         THEN "commit" ELSE "work"]
               ELSE IF out = Nil THEN DoTxnReturn(s.err)
               ELSE IF IsConflict(out) THEN [procs EXCEPT !.pc = "sleep"]
               ELSE DoTxnReturn(out)
        /\ UNCHANGED delegate
        /\ RetryFrame

\* tx.Commit: the transaction is over whatever Commit returns
DoTxnCommit(out) ==
    /\ procs.pc = "commit"
    /\ procs' =
           IF IsConflict(out)
           THEN [procs EXCEPT !.pc = "sleep", !.open = @ - 1, !.view = {}]
           ELSE DoTxnReturn(out)
    /\ delegate' = IF out = Nil THEN procs.view ELSE delegate
    /\ RetryFrame

\* s.Sleep(250 ms), limit--, continue: Sleep returns at once when the context
\* is done, and the loop goes on in either case
DoTxnSleep ==
    /\ procs.pc = "sleep"
    /\ procs' =
           IF procs.limit - 1 # 0
           THEN [procs EXCEPT !.pc = "begin", !.limit = @ - 1]
           ELSE [DoTxnReturn(ErrDBConflict) EXCEPT !.limit = @ - 1]
    /\ UNCHANGED delegate
    /\ RetryFrame

\* the service shuts down: the context the store was given is cancelled
CtxCancel ==
    /\ procs.ctx = "live"
    /\ procs' = [procs EXCEPT !.ctx = "done"]
    /\ UNCHANGED delegate
    /\ RetryFrame

RetryNext ==
    \/ \E w \in Works : Transaction(w)
    \/ \E o \in Outcomes : DoTxnBegin(o)
    \/ \E o \in Outcomes : DoTxnWork(o)
    \/ \E o \in Outcomes : DoTxnCommit(o)
    \/ DoTxnSleep
    \/ CtxCancel

SpecRetry == InitRetry /\ [][RetryNext]_vars

\* ------------------------------------------------------------ the web API
\* The handlers of web.go in front of the key manager, one request after the
\* other.  A request the handler turns away before it calls the key manager
\* is recorded in ret under the handler's path, with the error code sent.
RawPasswords == {"", "  ", "suchpass", " suchpass ", "wowsecure"}

\* strings.TrimSpace on the password strings of the requests
TrimSpace(s) ==
    CASE s = "  " -> ""
      [] s = " suchpass " -> "suchpass"
      [] OTHER -> s

Paths ==
    {"/create", "/login", "/roll-token", "/logout", "/change-password",
     "/recover-password", "/create-delegate", "/get-delegate-key",
     "/get-delegate-pub"}

codeForErr(err) ==
    CASE err = ErrOutOfEntropy -> "entropy"
      [] err = ErrWrongWord -> "wordlist"
      [] err = ErrWrongChecksum -> "checksum"
      [] err = ErrWrongLength -> "length"
      [] err = ErrBadToken -> "token"
      [] err = ErrWrongPassword -> "password"
      [] err = ErrWrongToken -> "wrong-token"
      [] err = ErrWrongMnemonic -> "mnemonic"
      [] err \in {ErrKeyExists, ErrAlreadyExists} -> "exists"
      [] err = ErrNotFound -> "not-found"
      [] err = ErrNoKey -> "nokey"
      [] err = ErrTooManyAttempts -> "too-many"
      [] OTHER -> "error"

\* the body sendError writes
sendError(code) == [fields |-> {"error", "reason"}, error |-> code]

\* the body sendJson writes for the response struct of the handler that
\* called op
sendJson(op) ==
    [fields |->
        CASE op = "CreateKey" -> {"seedphrase"}
          [] op \in {"LogIn", "RollToken"} -> {"token", "valid_for"}
          [] op \in {"ChangePassword", "RecoverPassword"} -> {"changed"}
          [] op = "CreateDelegate" -> {"token", "pub"}
          [] op = "GetDelegatePriv" -> {"priv", "pub"}
          [] op = "GetDelegatePub" -> {"pub"}
          [] OTHER -> {}]

\* the handlers whose error branch ends with return
ReturnsOnError == {"RollToken", "ChangePassword", "RecoverPassword"}

\* the bodies the handler of request r passed to w.Write, in order; a call
\* that panics writes none
Written(r) ==
    IF r.op \in Paths THEN <<sendError(r.err)>>
    ELSE IF r.err = Panic THEN <<>>
    ELSE IF r.err = Nil THEN <<sendJson(r.op)>>
    ELSE IF r.op \in ReturnsOnError THEN <<sendError(codeForErr(r.err))>>
    ELSE <<sendError(codeForErr(r.err)), sendJson(r.op)>>

\* sendError and return before the key manager is called
Reject(path, code) ==
    /\ ret' = [NoRet EXCEPT !.op = path, !.err = code]
    /\ UNCHANGED <<stale, rest, config, delegate, sessions, key, now, ticks,
                   nextTok, issued>>

create(raw, nbad, e, saltDraw, nonceDraw) ==
    IF TrimSpace(raw) = "" THEN Reject("/create", "password")
    ELSE CreateKey(TrimSpace(raw), nbad, e, saltDraw, nonceDraw)

login(raw, tokDraw) ==
    IF TrimSpace(raw) = "" THEN Reject("/login", "password")
    ELSE LogIn(TrimSpace(raw), tokDraw)

rollToken(token, tokDraw) == RollToken(token, tokDraw)

logout(token) == LogOut(token)

changePassword(raw, rawnew, saltDraw, nonceDraw) ==
    IF TrimSpace(raw) = "" THEN Reject("/change-password", "password")
    ELSE IF TrimSpace(rawnew) = "" THEN Reject("/change-password", "newpassword")
    ELSE ChangePassword(TrimSpace(raw), TrimSpace(rawnew), saltDraw, nonceDraw)

recoverPassword(seedphrase, rawnew, saltDraw, nonceDraw) ==
    IF TrimSpace(rawnew) = "" THEN Reject("/recover-password", "newpassword")
    ELSE IF Len(seedphrase) < 1 THEN Reject("/recover-password", "seedphrase")
    ELSE RecoverPassword(seedphrase, TrimSpace(rawnew), saltDraw, nonceDraw)

\* id 0 is the empty id
createDelegate(id, raw, tokDraw, saltDraw, nonceDraw) ==
    IF id = 0 THEN Reject("/create-delegate", "bad-request")
    ELSE IF raw = "" THEN Reject("/create-delegate", "bad-request")
    ELSE CreateDelegate(id, raw, tokDraw, saltDraw, nonceDraw)

getDelegatePriv(id, token) ==
    IF id = 0 THEN Reject("/get-delegate-key", "bad-request")
    ELSE KeyMgrGetDelegatePriv(id, token)

getDelegatePub(id) ==
    IF id = 0 THEN Reject("/get-delegate-pub", "bad-request")
    ELSE KeyMgrGetDelegatePub(id)

WebNext ==
    \/ \E w \in RawPasswords, g \in KmEntropy, d \in KmSeal :
           create(w, g[1], g[2], d[1], d[2])
    \/ \E w \in RawPasswords, t \in TokenDraws : login(w, t)
    \/ \E t \in Minted, d \in TokenDraws : rollToken(t, d)
    \/ \E t \in Minted : logout(t)
    \/ \E w \in RawPasswords, q \in RawPasswords, d \in KmSeal :
           changePassword(w, q, d[1], d[2])
    \/ \E m \in KmMnemonics \cup {<<>>}, q \in RawPasswords, d \in KmSeal :
           recoverPassword(m, q, d[1], d[2])
    \/ \E i \in 0..MaxPup, w \in RawPasswords, t \in TokenDraws, d \in KmSeal :
           createDelegate(i, w, t, d[1], d[2])
    \/ \E i \in 0..MaxPup, t \in Minted : getDelegatePriv(i, t)
    \/ \E i \in 0..MaxPup : getDelegatePub(i)

SpecWeb == Init /\ [][WebNext]_vars

\* ------------------------------------------------------ key index arithmetic
\* keyIndex and H + keyIndex are uint32 values in the code.  Here a uint32
\* is the pair <<high, low>> of its 16-bit halves, and the arithmetic wraps
\* modulo 2^32 as Go's does.
Word == 65536

HardenedKey == <<HardenedHi, 0>>        \* doge.HardenedKey = 0x80000000

\* uint32(x + 1)
Inc32(x) ==
    IF x[2] + 1 < Word THEN <<x[1], x[2] + 1>> ELSE <<(x[1] + 1) % Word, 0>>

\* a + b in uint32
Add32(a, b) ==
    LET lo == a[2] + b[2]
    IN  <<(a[1] + b[1] + lo \div Word) % Word, lo % Word>>

Less32(a, b) == a[1] < b[1] \/ (a[1] = b[1] /\ a[2] < b[2])

\* SELECT COALESCE(MAX(keyid),0) FROM delegate, scanned into a uint32
GetMaxDelegate32(dlg) ==
    IF dlg = {} THEN <<0, 0>>
    ELSE CHOOSE m \in {r.keyid : r \in dlg} : \A r \in dlg : ~Less32(m, r.keyid)

\* the greatest key index earlier calls left in the table: none, one below a
\* carry of the low half, two below 2^31, one below 2^32
IndexSeeds ==
    {<<0, 0>>, <<0, Word - 1>>, <<HardenedHi - 1, Word - 2>>, <<Word - 1, Word - 1>>}

\* CreateDelegate with the key index in uint32
CreateDelegate32(id, pass, tokDraw, saltDraw, nonceDraw) ==
    LET d == getAndDecryptKey(config, MainKey, pass)
        m == DecodeBip32WIF(d.key)
        pupKey == PrivateCKD(m.key, <<Hardened(1000), Hardened(2)>>)
        keyIndex == Inc32(GetMaxDelegate32(delegate))
        child == PrivateCKD(pupKey, <<Add32(HardenedKey, keyIndex)>>)
        e == encryptKey(EncodeWIF(child), tokDraw, saltDraw, nonceDraw)
        pub == GetECPubKey(child)
        s == SetDelegate(delegate, id, e.salt, e.nonce, e.enc, pub, keyIndex)
        err == IF d.err # Nil THEN d.err
               ELSE IF m.err # Nil THEN ErrBadKey
               ELSE IF tokDraw = RngFail THEN ErrOutOfEntropy
               ELSE IF e.err # Nil THEN e.err
               ELSE s.err
    IN  /\ delegate' = IF err = Nil THEN s.delegate ELSE delegate
        /\ nextTok' = IF err = Nil THEN nextTok + 1 ELSE nextTok
        /\ ret' = [NoRet EXCEPT !.op = "CreateDelegate", !.err = err, !.id = id,
                                !.pass = pass,
                                !.newtoken = IF err = Nil THEN tokDraw ELSE NoToken,
                                !.pubkey = IF err = Nil THEN pub ELSE NoBytes]
        /\ UNCHANGED <<stale, rest, config, sessions, key, now, ticks, issued>>

\* MakeDelegate with the key index in uint32
MakeDelegate32(id, token) ==
    LET ss == cleanSessions(sessions, now)
        m  == DecodeBip32WIF(key)
        pupKey == PrivateCKD(m.key, <<Hardened(1000), Hardened(2)>>)
        g  == GetDelegatePub(delegate, id)
        keyIndex == IF g.err = Nil THEN g.keyid
                    ELSE Inc32(GetMaxDelegate32(delegate))
        s  == SetDelegate(delegate, id, Empty, Empty, NoBytes, NoBytes, keyIndex)
        child == PrivateCKD(pupKey, <<Add32(HardenedKey, keyIndex)>>)
    IN  /\ sessions' = ss
        /\ IF token \in DOMAIN ss /\ key # NoBytes
           THEN IF m.err # Nil
                THEN /\ ret' = [NoRet EXCEPT !.op = "MakeDelegate", !.err = ErrBadKey,
                                             !.id = id, !.token = token,
                                             !.found = Lookup(sessions, token)]
                     /\ UNCHANGED delegate
                ELSE /\ delegate' = IF g.err = Nil THEN delegate ELSE s.delegate
                     /\ ret' = [NoRet EXCEPT !.op = "MakeDelegate", !.id = id,
                                             !.token = token,
                                             !.found = Lookup(sessions, token),
                                             !.privkey = GetECPrivKey(child),
                                             !.pubkey = GetECPubKey(child),
                                             !.wif = EncodeWIF(child)]
           ELSE /\ ret' = [NoRet EXCEPT !.op = "MakeDelegate", !.err = ErrBadToken,
                                        !.id = id, !.token = token,
                                        !.found = Lookup(sessions, token)]
                /\ UNCHANGED delegate
        /\ UNCHANGED <<stale, rest, config, key, now, ticks, nextTok, issued>>

\* the key manager constructed over a database file that holds the master
\* record and the delegate records of earlier runs; of those the table shows
\* the one with the greatest key index, under the pup id 0
InitIndex ==
    /\ config = encryptAndSetKey({}, MainKey, generateMnemonic(0, 1).key,
                                 generateMnemonic(0, 1).pub, "suchpass", FALSE,
                                 1, 1).config
    /\ \E top \in IndexSeeds :
           delegate = IF top = <<0, 0>> THEN {}
                      ELSE {DelegateRow(0, Empty, Empty, NoBytes, NoBytes, top)}
    /\ sessions = <<>>
    /\ key = NoBytes
    /\ now = 0
    /\ ticks = 0
    /\ nextTok = 1
    /\ issued = generateMnemonic(0, 1).mnemonic
    /\ ret = NoRet
    /\ stale = {}
    /\ procs = <<>>
    /\ env = NoEnv

IndexNext ==
    \/ \E t \in TokenDraws : LogIn("suchpass", t)
    \/ \E i \in DlgPups, p \in Passwords, t \in TokenDraws :
           CreateDelegate32(i, p, t, 1, 1)
    \/ \E i \in DlgPups, t \in Minted : MakeDelegate32(i, t)

SpecIndex == InitIndex /\ [][IndexNext]_vars

\* ----------------------------------------------------------------- notions
\* the passwords that open the stored master record
Opens(cfg) == {p \in Passwords : getAndDecryptKey(cfg, MainKey, p).err = Nil}

\* the call failed for want of randomness, not because of its arguments
Starved(r) == r.err \in {ErrOutOfEntropy, ErrTooManyAttempts}

\* the step is the call that ret' reports, its random draws taken from D
CreateKeyStep(D) ==
    /\ ret'.op = "CreateKey"
    /\ \E b \in BadRuns, e \in Entropies, s \in D, n \in D :
           CreateKey(ret'.pass, b, e, s, n)
ChangePasswordStep(D) ==
    /\ ret'.op = "ChangePassword"
    /\ \E s \in D, n \in D : ChangePassword(ret'.pass, ret'.newpass, s, n)
RecoverPasswordStep(D) ==
    /\ ret'.op = "RecoverPassword"
    /\ \E s \in D, n \in D : RecoverPassword(ret'.mnemonic, ret'.newpass, s, n)
LogInStep(D) ==
    /\ ret'.op = "LogIn"
    /\ \E t \in D : LogIn(ret'.pass, t)
RollTokenStep(D) ==
    /\ ret'.op = "RollToken"
    /\ \E t \in D : RollToken(ret'.token, t)
LogOutStep ==
    /\ ret'.op = "LogOut"
    /\ LogOut(ret'.token)
MakeDelegateStep ==
    /\ ret'.op = "MakeDelegate"
    /\ MakeDelegate(ret'.id, ret'.token)

GoodDraws  == 1..MaxRand
GoodTokens == TokenDraws \ {RngFail}

\* ------------------------------------------------------------------ claims

\* C1: the store never holds more than one master record, and it is the row
\* with id 1; a CreateKey call made while the record exists leaves salt,
\* nonce, ciphertext and pub as they were, never succeeds, and returns
\* ErrKeyExists whenever the random source delivered.
C1_SingleMaster ==
    [][/\ Cardinality(config) <= 1
       /\ Cardinality(config') <= 1
       /\ \A r \in config' : r.id = MainKey
       /\ (config # {} /\ CreateKeyStep(Draws)) =>
              /\ config' = config
              /\ ret'.err # Nil
              /\ (~Starved(ret') => ret'.err = ErrKeyExists)]_vars

C1_Witness ==
    /\ ret.op = "CreateKey"
    /\ ret.err = ErrKeyExists
    /\ Cardinality(config) = 1

\* C2: once the master record exists, it exists in every later state and its
\* pub never changes, whatever ChangePassword and RecoverPassword calls succeed
\* or fail.
C2_PubStable ==
    [][config # {} =>
          /\ config' # {}
          /\ \A r \in config, q \in config' : q.pub = r.pub]_vars

C2_Witness ==
    /\ ret.op \in {"ChangePassword", "RecoverPassword"}
    /\ ret.err = Nil
    /\ ret.newpass # ret.pass
    /\ \E r \in config : r.pub = GetECPubKey(Bip32MasterFromSeed(
                                     SeedFromMnemonic(issued, "").seed).key)

\* C3: RecoverPassword with the mnemonic CreateKey returned and any new
\* password succeeds whenever the random source delivers, in every state
\* reachable after CreateKey; the pub is the one stored before, and a LogIn
\* with the new password that follows succeeds.
C3_RecoverRoundTrip ==
    [][/\ (/\ issued # <<>>
           /\ ret'.mnemonic = issued
           /\ RecoverPasswordStep(GoodDraws)) =>
              /\ ret'.err = Nil
              /\ \A r \in config, r2 \in config' : r2.pub = r.pub
              /\ ret'.newpass \in Opens(config')
       /\ (/\ ret.op = "RecoverPassword"
           /\ ret.err = Nil
           /\ ret'.pass = ret.newpass
           /\ LogInStep(GoodTokens)) =>
              /\ ret'.err = Nil
              /\ ret'.newtoken \in DOMAIN sessions']_vars

C3_Witness ==
    /\ ret.op = "RecoverPassword"
    /\ ret.err = Nil
    /\ ret.mnemonic = issued
    /\ Opens(config) = {ret.newpass}

\* C4 as stated: after a successful ChangePassword(password1, password2), a
\* LogIn with password1 returns ErrWrongPassword, for any two passwords.
C4_Original ==
    [][(/\ ret.op = "ChangePassword"
        /\ ret.err = Nil
        /\ ret'.pass = ret.pass
        /\ LogInStep(TokenDraws)) =>
           ret'.err = ErrWrongPassword]_vars

\* C4 amended: after a successful ChangePassword(password1, password2), LogIn
\* with password2 succeeds whenever the random source delivers a token, and
\* LogIn with password1 returns ErrWrongPassword when password1 differs from
\* password2.
C4_ChangeThenLogIn ==
    [][/\ (/\ ret.op = "ChangePassword"
           /\ ret.err = Nil
           /\ ret'.pass = ret.newpass
           /\ LogInStep(GoodTokens)) =>
              ret'.err = Nil
       /\ (/\ ret.op = "ChangePassword"
           /\ ret.err = Nil
           /\ ret'.pass = ret.pass
           /\ ret.pass # ret.newpass
           /\ LogInStep(TokenDraws)) =>
              ret'.err = ErrWrongPassword]_vars

C4_Witness ==
    /\ ret.op = "ChangePassword"
    /\ ret.err = Nil
    /\ ret.pass # ret.newpass
    /\ Opens(config) = {ret.newpass}

\* C5: RecoverPassword with a mnemonic of wrong length, with a word off the
\* list or with a wrong checksum returns that parse error, and with a
\* well-formed mnemonic whose master pub differs from the stored pub returns
\* ErrWrongMnemonic; the master record is unchanged, and a following LogIn with
\* a password that opened the record before succeeds.
C5_BadMnemonic ==
    [][/\ (config # {} /\ RecoverPasswordStep(Draws)) =>
              LET sd == SeedFromMnemonic(ret'.mnemonic, "")
                  ms == Bip32MasterFromSeed(sd.seed)
              IN  /\ sd.err # Nil => (ret'.err = sd.err /\ config' = config)
                  /\ (/\ sd.err = Nil
                      /\ ms.err = Nil
                      /\ \A r \in config : r.pub # GetECPubKey(ms.key)) =>
                          (ret'.err = ErrWrongMnemonic /\ config' = config)
       /\ (/\ ret.op = "RecoverPassword"
           /\ ret.err \in {ErrWrongLength, ErrWrongWord, ErrWrongChecksum,
                           ErrWrongMnemonic}
           /\ ret'.pass \in Opens(config)
           /\ LogInStep(GoodTokens)) =>
              ret'.err = Nil]_vars

C5_Witness ==
    /\ ret.op = "RecoverPassword"
    /\ ret.err = ErrWrongMnemonic
    /\ ret.mnemonic = MnemonicOf(Foreign)
    /\ config # {}
    /\ Opens(config) # {}

\* the entry under token t is one RollToken takes / MakeDelegate takes
Rollable(ss, t, at) == t \in DOMAIN ss /\ ~ss[t].rolled /\ ss[t].expires > at
Live(ss, t, at)     == t \in DOMAIN ss /\ ~(ss[t].expires < at)

\* C6: a successful LogIn returns a token no earlier call returned, with a
\* session record of its own; a session that has not expired keeps its record
\* across every step that is not a LogOut or RollToken of that very token (a
\* LogOut, a RollToken or the expiry of another token included), and the
\* cached master stays in place for it.
C6_IndependentSessions ==
    [][/\ (LogInStep(GoodTokens) /\ ret'.err = Nil) =>
              /\ ret'.newtoken \notin Minted
              /\ ret'.newtoken \in DOMAIN sessions'
              /\ sessions'[ret'.newtoken] = Session(now + 610, FALSE)
       /\ \A u \in DOMAIN sessions :
              (/\ sessions[u].expires >= now'
               /\ ~(LogOutStep /\ ret'.token = u)
               /\ ~(RollTokenStep(TokenDraws) /\ ret'.token = u)) =>
                  /\ u \in DOMAIN sessions'
                  /\ sessions'[u] = sessions[u]
                  /\ key' # NoBytes]_vars

C6_Witness ==
    /\ ret.op = "LogOut"
    /\ ret.found # NoSession
    /\ ret.token \notin DOMAIN sessions
    /\ \E u \in DOMAIN sessions : ~sessions[u].rolled /\ sessions[u].expires > now
    /\ key # NoBytes

\* C7: when the random source delivers, RollToken(t) succeeds exactly if t is
\* in the session table, not marked rolled and not expired; then t is marked
\* rolled with expires = now + 10 and the returned token is new, with a record
\* of its own that expires at now + 610.
C7_RollToken ==
    [][RollTokenStep(GoodTokens) =>
          LET t == ret'.token
          IN  /\ ret'.err = Nil <=> Rollable(sessions, t, now)
              /\ Rollable(sessions, t, now) =>
                     /\ sessions'[t] = Session(now + 10, TRUE)
                     /\ ret'.newtoken \notin Minted
                     /\ ret'.newtoken # t
                     /\ sessions'[ret'.newtoken] = Session(now + 610, FALSE)]_vars

C7_Witness ==
    /\ ret.op = "RollToken"
    /\ ret.err = Nil
    /\ ret.token \in DOMAIN sessions
    /\ sessions[ret.token] = Session(now + 10, TRUE)
    /\ ret.newtoken \in DOMAIN sessions

\* C8: RollToken on a token that is marked rolled returns ErrBadToken and
\* removes it from the table; every other unexpired session, the token the
\* first roll returned among them, keeps its record, and the cached master
\* stays.
C8_SecondRoll ==
    [][(RollTokenStep(TokenDraws) /\ ret'.found.rolled) =>
          /\ ret'.err = ErrBadToken
          /\ ret'.token \notin DOMAIN sessions'
          /\ key' = key
          /\ \A u \in DOMAIN sessions \ {ret'.token} :
                 sessions[u].expires >= now =>
                     /\ u \in DOMAIN sessions'
                     /\ sessions'[u] = sessions[u]
                     /\ (Rollable(sessions, u, now) => Rollable(sessions', u, now'))
                     /\ (Live(sessions, u, now) /\ key # NoBytes) =>
                            (Live(sessions', u, now') /\ key' # NoBytes)]_vars

C8_Witness ==
    /\ ret.op = "RollToken"
    /\ ret.err = ErrBadToken
    /\ ret.found.rolled
    /\ ret.token \notin DOMAIN sessions
    /\ \E u \in DOMAIN sessions : Rollable(sessions, u, now)
    /\ key # NoBytes

\* C9 as stated: every failing RollToken returns ErrBadToken.
C9_Original ==
    [][(RollTokenStep(TokenDraws) /\ ret'.err # Nil) =>
          ret'.err = ErrBadToken]_vars

\* C9 amended: RollToken returns ErrBadToken exactly when the token is
\* unknown, already rolled or expired; when the token is good and minting the
\* replacement fails for lack of entropy it returns ErrOutOfEntropy.
C9_RollTokenErrors ==
    [][RollTokenStep(TokenDraws) =>
          /\ ret'.err \in {Nil, ErrBadToken, ErrOutOfEntropy}
          /\ ret'.err = ErrBadToken <=> ~Rollable(sessions, ret'.token, now)
          /\ (Rollable(sessions, ret'.token, now) /\ ~RollTokenStep(GoodTokens)) =>
                 ret'.err = ErrOutOfEntropy]_vars

C9_Witness ==
    /\ ret.op = "RollToken"
    /\ ret.err = ErrOutOfEntropy
    /\ Rollable([x \in {ret.token} |-> ret.found], ret.token, now)

\* C10: MakeDelegate returns key material only if its token is in the session
\* table and not expired when the call is made and a master is cached; for a
\* token that is unknown, logged out or expired it returns ErrBadToken, no key
\* material, and the delegate table is unchanged.
C10_MakeDelegateGate ==
    [][MakeDelegateStep =>
          LET t == ret'.token
              material == \/ ret'.privkey # NoBytes
                          \/ ret'.pubkey # NoBytes
                          \/ ret'.wif # NoBytes
          IN  /\ material => (Live(sessions, t, now) /\ key # NoBytes)
              /\ ~Live(sessions, t, now) =>
                     /\ ret'.err = ErrBadToken
                     /\ ~material
                     /\ delegate' = delegate]_vars

C10_Witness ==
    /\ ret.op = "MakeDelegate"
    /\ ret.err = ErrBadToken
    /\ ret.found # NoSession
    /\ ret.found.expires < now
    /\ key # NoBytes

\* C11 as stated: in every state reached after an operation completes, an
\* empty session table means the cached master is zeroed and dropped, whether
\* the last session went by LogOut, by an expiry sweep inside LogIn, RollToken
\* or MakeDelegate, or by a rejected second RollToken.
C11_Original ==
    DOMAIN sessions = {} => key = NoBytes

\* C12: after LogOut(t) with no other unexpired session left, the cache slot
\* is empty and the buffer it pointed to was wiped, so that none of the master
\* stays behind in memory; LogOut(t) while another unexpired session remains
\* leaves the cached master as it was.
C12_LogOutZeroes ==
    [][LogOutStep =>
          LET others == {u \in DOMAIN sessions \ {ret'.token} :
                            Live(sessions, u, now)}
          IN  /\ others = {} => (key' = NoBytes /\ stale' = stale)
              /\ others # {} => (key' = key /\ key' # NoBytes /\ stale' = stale)]_vars

C12_Witness ==
    /\ ret.op = "LogOut"
    /\ Live([x \in {ret.token} |-> ret.found], ret.token, now)
    /\ DOMAIN sessions = {}
    /\ key = NoBytes
    /\ stale = {}

\* the steps of the delegate calls, as ret' reports them
CreateDelegateStep ==
    /\ ret'.op = "CreateDelegate"
    /\ \E t \in TokenDraws, s \in DlgDraws, n \in DlgDraws :
           CreateDelegate(ret'.id, ret'.pass, t, s, n)
GetDelegatePubStep ==
    /\ ret'.op = "GetDelegatePub"
    /\ KeyMgrGetDelegatePub(ret'.id)
GetDelegatePrivStep ==
    /\ ret'.op = "GetDelegatePriv"
    /\ KeyMgrGetDelegatePriv(ret'.id, ret'.token)

\* the master the issued mnemonic stands for, and its child m/1000'/2'/k'
IssuedMaster == Bip32MasterFromSeed(SeedFromMnemonic(issued, "").seed).key
ChildAt(k) ==
    PrivateCKD(PrivateCKD(IssuedMaster, <<Hardened(1000), Hardened(2)>>),
               <<Hardened(k)>>)

\* a raw EC private key, and the public key that belongs to it
IsECPriv(b) == Len(b) = 3 /\ b[1] = "priv"
ECPub(b) == <<"pub", b[2], b[3]>>

\* the record holds an envelope; the token the envelope was sealed under
Sealed(r) == Len(r.enc) = 3
SealedUnder(r, t) == Sealed(r) /\ r.enc[1][1] = t

\* C13 as stated: after CreateDelegate(id, password) returned (t, pub),
\* GetDelegatePub(id) returns pub, and GetDelegatePriv(id, t) returns the
\* stored pub together with the raw EC private key of the child (not its xprv
\* encoding), with ECPub(priv) = pub.
C13_Original ==
    [][(ret.op = "CreateDelegate" /\ ret.err = Nil /\ ret'.id = ret.id) =>
          /\ GetDelegatePubStep => (ret'.err = Nil /\ ret'.pubkey = ret.pubkey)
          /\ (GetDelegatePrivStep /\ ret'.token = ret.newtoken) =>
                 /\ ret'.err = Nil
                 /\ ret'.pubkey = ret.pubkey
                 /\ IsECPriv(ret'.privkey)
                 /\ ECPub(ret'.privkey) = ret.pubkey]_vars

\* C14 as stated: for every delegate record that exists, GetDelegatePriv with
\* a token other than the one the record was sealed under returns
\* ErrWrongToken and no key material; GetDelegatePriv and GetDelegatePub for
\* an id without a record return ErrNotFound.
C14_Original ==
    [][/\ GetDelegatePrivStep =>
              /\ \A r \in delegate :
                     (r.id = ret'.id /\ ~SealedUnder(r, ret'.token)) =>
                         /\ ret'.err = ErrWrongToken
                         /\ ret'.privkey = NoBytes
                         /\ ret'.pubkey = NoBytes
              /\ (\A r \in delegate : r.id # ret'.id) => ret'.err = ErrNotFound
       /\ (GetDelegatePubStep /\ \A r \in delegate : r.id # ret'.id) =>
              ret'.err = ErrNotFound]_vars

\* C15 as stated: in every reachable state the stored pub of every delegate
\* record is the public key of the child of the master at
\* m/1000'/2'/keyIndex', whichever of CreateDelegate and MakeDelegate created
\* the record.
C15_Original ==
    \A r \in delegate : r.pub = GetECPubKey(ChildAt(r.keyid))

\* the greatest key index in the table, 0 for the empty table
Greatest(dlg) ==
    IF dlg = {} THEN 0
    ELSE CHOOSE k \in {r.keyid : r \in dlg} : \A r \in dlg : r.keyid <= k

\* C16: across CreateDelegate and MakeDelegate calls, successful or failed,
\* the key indexes of the stored records are pairwise distinct, a call adds at
\* most one record and changes none, the new record gets the greatest
\* existing index plus one (1 in the empty table), and a failed call leaves
\* the table, and so the next index, as it was.
C16_KeyIndexes ==
    [][/\ \A r \in delegate', q \in delegate' : r.keyid = q.keyid => r = q
       /\ (CreateDelegateStep \/ MakeDelegateStep) =>
              /\ delegate \subseteq delegate'
              /\ Cardinality(delegate' \ delegate) <= 1
              /\ \A r \in delegate' \ delegate : r.keyid = Greatest(delegate) + 1
              /\ ret'.err # Nil => delegate' = delegate]_vars

C16_Witness ==
    /\ \E r \in delegate, q \in delegate :
           /\ r.keyid = 1 /\ q.keyid = 2
           /\ Sealed(r) /\ ~Sealed(q)
    /\ ret.op = "CreateDelegate"
    /\ ret.err # Nil

\* key material of the child at key index k comes back from the call
ReturnsKeyAt(r, k) ==
    \/ r.privkey \in {GetECPrivKey(ChildAt(k)), EncodeWIF(ChildAt(k))}
    \/ r.wif = EncodeWIF(ChildAt(k))

\* C18 as stated: after CreateDelegate(id, password) returned (delegateToken,
\* pub), no operation returns the private key of id to a caller that does not
\* present delegateToken.
C18_Original ==
    [][\A r \in delegate :
          (Sealed(r) /\ ReturnsKeyAt(ret', r.keyid)) => SealedUnder(r, ret'.token)]_vars

\* C18 amended: the private key of a delegate that CreateDelegate made comes
\* back only from GetDelegatePriv(id, delegateToken) and from MakeDelegate(id,
\* t) with t a session in the table, not expired, while the master is cached.
C18_KeyRecovery ==
    [][\A r \in delegate :
          (Sealed(r) /\ ReturnsKeyAt(ret', r.keyid)) =>
              \/ /\ ret'.op = "GetDelegatePriv"
                 /\ ret'.id = r.id
                 /\ SealedUnder(r, ret'.token)
              \/ /\ ret'.op = "MakeDelegate"
                 /\ ret'.id = r.id
                 /\ Live(sessions, ret'.token, now)
                 /\ key # NoBytes]_vars

C18_Witness ==
    /\ ret.op = "MakeDelegate"
    /\ ret.err = Nil
    /\ \E r \in delegate :
           /\ r.id = ret.id
           /\ Sealed(r)
           /\ ~SealedUnder(r, ret.token)
           /\ ret.wif = EncodeWIF(ChildAt(r.keyid))

\* C17: concurrent CreateDelegate calls with distinct ids, over a table whose
\* greatest key index is k: no call waits for ever, every call made with the
\* password of the master whose random draws deliver succeeds, and the key
\* indexes of the records the calls have added are exactly k+1 .. k+n, n the
\* number of those records; reading the maximum and inserting the record are
\* never interleaved with another call's.
C17_ConcurrentCreate ==
    LET added == {r \in delegate : r.id > MaxPup}
        k == Greatest(delegate \ added)
        through == {p \in Callers : procs[p].pc \in {"inserted", "done"}
                                      /\ procs[p].err = Nil
                                      /\ procs[p].pass # ""}
    IN  /\ {r.keyid : r \in added} = (k + 1)..(k + Cardinality(added))
        /\ {r.id : r \in added} = {procs[p].id : p \in through}
        /\ Cardinality({p \in Callers : procs[p].pc \in InTxn}) <= 1
        /\ \A p \in Callers :
               (/\ procs[p].pc = "done"
                /\ procs[p].pass \in Opens(config)
                /\ procs[p].err # ErrOutOfEntropy) => procs[p].err = Nil
        /\ (\E p \in Callers : procs[p].pc # "done") => ENABLED TxnNext

C17_Witness ==
    /\ \A p \in Callers : procs[p].pc = "done" /\ procs[p].err = Nil
    /\ Cardinality(Callers) >= 2
    /\ Greatest({r \in delegate : r.id <= MaxPup}) = 1
    /\ {r.keyid : r \in delegate} = 1..(1 + Cardinality(Callers))

\* C19: the envelope round trip.  What encryptKey(x, p) produced opens under
\* p to x, and under any other password it fails with ErrWrongPassword and
\* gives nothing; the sealing key is Argon2id of the password and the salt
\* with t = 3, m = 64 MiB (65536 KiB), p = 4 and 32 bytes of output, and
\* decryptKey derives its key with the same parameters.
C19_RoundTrip ==
    /\ (env.phase = "sealed" /\ env.err = Nil) =>
           /\ env.enc[1] = <<env.pass, env.salt, 3, 65536, 4, 32>>
           /\ decryptKey(env.salt, env.nonce, env.enc, env.pass).key = env.secret
    /\ env.phase = "opened" =>
           /\ env.pass2 = env.pass => (env.err = Nil /\ env.opened = env.secret)
           /\ env.pass2 # env.pass =>
                  (env.err = ErrWrongPassword /\ env.opened = NoBytes)

C19_Witness ==
    /\ env.phase = "opened"
    /\ env.pass2 = env.pass
    /\ env.err = Nil
    /\ env.opened = env.secret
    /\ env.opened \notin {generateMnemonic(0, e).key : e \in 1..MaxEntropy}

\* no call is in flight
Quiet == \A p \in Racers : procs[p].pc = "idle"

\* C20 as stated: the session table and the cached master are accessed under
\* one mutex, so that concurrent calls end as some sequential order of them
\* would: the process survives them, and once the calls have returned no
\* unexpired session is left whose cached master a concurrent LogOut zeroed
\* or dropped.
C20_Original ==
    /\ \A p \in Racers : procs[p].pc # "fatal"
    /\ Quiet => \A t \in DOMAIN sessions : Live(sessions, t, now) => key # NoBytes

\* a step of the call in flight
DoTxnStep ==
    \/ \E o \in Outcomes : DoTxnBegin(o)
    \/ \E o \in Outcomes : DoTxnWork(o)
    \/ \E o \in Outcomes : DoTxnCommit(o)
    \/ DoTxnSleep

\* the call is inside doTxn
InDoTxn == procs.pc \in {"begin", "work", "commit", "sleep"}

\* C21 (as stated): every store operation terminates -- a call inside doTxn
\* can always take its next step, with a single connection and after a
\* conflict reported inside the work function too, and it makes at most 120
\* attempts.
C21_Original ==
    /\ InDoTxn => ENABLED DoTxnStep
    /\ procs.begins <= RetryLimit

\* C22 (as stated): once the context is cancelled, a call that sleeps in the
\* conflict-retry loop makes no further attempt: its next step is the return.
C22_Original ==
    [][(procs.ctx = "done" /\ procs.pc = "sleep" /\ DoTxnStep) => procs'.pc = "done"]_vars

\* the ids of the rows of a table
Ids(dlg) == {r.id : r \in dlg}

\* C23: Transaction(work) is atomic.  The table changes only in the step in
\* which the call returns nil, and then the row of every insert of work is
\* there; a call that returns an error leaves the table as it was.  A store
\* call made through the transaction view begins no transaction and does not
\* touch the countdown.
C23_Atomic ==
    [][/\ delegate' # delegate =>
              /\ procs.pc = "commit" /\ procs'.pc = "done" /\ procs'.err = Nil
              /\ delegate \subseteq delegate'
              /\ Ids(delegate') = Ids(delegate) \cup {procs.work[i] : i \in 1..Len(procs.work)}
       /\ (procs.pc = "commit" /\ procs'.pc = "done" /\ procs'.err = Nil) =>
              {procs.work[i] : i \in 1..Len(procs.work)} \subseteq Ids(delegate')
       /\ (procs.pc = "work" /\ procs'.pc \in {"work", "commit"}) =>
              /\ procs'.begins = procs.begins
              /\ procs'.limit = procs.limit
              /\ procs'.open = procs.open]_vars

\* the second insert of work failed after the first had gone through: the
\* call returned the error and the first row is not in the table
C23_Witness ==
    /\ procs.pc = "done"
    /\ procs.err = ErrAlreadyExists
    /\ procs.at = 2
    /\ procs.work[1] \notin Ids(delegate)

\* the step is a CreateDelegate call whose token, salt and nonce reads deliver
CreateDelegateFedStep ==
    /\ ret'.op = "CreateDelegate"
    /\ \E t \in GoodTokens : CreateDelegate(ret'.id, ret'.pass, t, 1, 1)

\* C24 (as stated): no operation changes or deletes a record of table
\* delegate, and CreateDelegate for an id that has a record fails with
\* AlreadyExists (here: even among the calls whose random reads deliver).
C24_Original ==
    [][/\ delegate \subseteq delegate'
       /\ (CreateDelegateFedStep /\ ret'.id \in Ids(delegate)) =>
              ret'.err = ErrAlreadyExists]_vars

\* C24 (amended): no operation changes or deletes a record of table delegate
\* or adds a second record for an id.  CreateDelegate for an id that has a
\* record fails: with WrongPassword exactly when the password does not open
\* the master record, with AlreadyExists when it does and the random reads
\* deliver, with OutOfEntropy otherwise.
C24_Immutable ==
    [][/\ delegate \subseteq delegate'
       /\ \A r \in delegate' \ delegate : r.id \notin Ids(delegate)
       /\ (CreateDelegateStep /\ ret'.id \in Ids(delegate)) =>
              /\ ret'.err \in {ErrWrongPassword, ErrOutOfEntropy, ErrAlreadyExists}
              /\ ret'.err = ErrWrongPassword <=> ret'.pass \notin Opens(config)
              /\ (CreateDelegateFedStep /\ ret'.pass \in Opens(config)) =>
                     ret'.err = ErrAlreadyExists]_vars

C24_Witness ==
    /\ ret.op = "CreateDelegate"
    /\ ret.err = ErrAlreadyExists
    /\ \E r \in delegate : r.id = ret.id /\ Sealed(r)

\* the key manager is in the Open state: a session and the cached master
Open == DOMAIN sessions # {} /\ key # NoBytes

\* C25: CreateDelegate called in the Open state is decided by the password
\* alone -- it returns WrongPassword exactly when the password does not open
\* the master record, whatever sessions there are -- and leaves the session
\* table and the cached master as they were, whether it succeeds or fails.
C25_Frame ==
    [][(CreateDelegateStep /\ Open) =>
           /\ sessions' = sessions
           /\ key' = key
           /\ ret'.err = ErrWrongPassword <=> ret'.pass \notin Opens(config)
           /\ ret'.err = Nil => ret'.pass \in Opens(config)]_vars

C25_Witness ==
    /\ Open
    /\ ret.op = "CreateDelegate"
    /\ ret.err = Nil
    /\ \E r \in delegate : r.id = ret.id /\ Sealed(r)

\* the envelope of the stored master record opens under the password
OpensRecord(cfg, p) ==
    \E r \in cfg : r.id = MainKey /\ decryptKey(r.s1, r.s2, r.enc, p).err = Nil

\* C26: in the Open state, ChangePassword and CreateDelegate called with a
\* password that does not open the stored master record return WrongPassword
\* and leave both tables of the store as they were: the cached master stands
\* in for no password.
C26_NoCache ==
    [][(/\ Open
        /\ ChangePasswordStep(Draws) \/ CreateDelegateStep
        /\ ~OpensRecord(config, ret'.pass)) =>
           /\ ret'.err = ErrWrongPassword
           /\ config' = config
           /\ delegate' = delegate]_vars

C26_Witness ==
    /\ Open
    /\ ret.op = "ChangePassword"
    /\ ret.err = ErrWrongPassword
    /\ ~OpensRecord(config, ret.pass)

\* C27 (as stated): between two operations the key manager holds no plaintext
\* private-key material, neither in the cache slot nor in a buffer it let go
\* of.
C27_Original == key = NoBytes /\ stale = {}

\* C28 (as stated): when an operation has returned, every plaintext secret
\* buffer it allocated or displaced has been overwritten with zeros, the one
\* buffer in the cache slot excepted; the buffer LogIn displaces from the
\* slot is among those overwritten.
C28_Original == stale = {}

C30_EmptyNoKey ==
    [][(/\ config = {}
        /\ \/ LogInStep(TokenDraws)
           \/ ChangePasswordStep(Draws)
           \/ RecoverPasswordStep(Draws)
           \/ CreateDelegateStep) =>
           /\ ret'.err = ErrNoKey
           /\ DOMAIN sessions' = {}
           /\ key' = NoBytes
           /\ config' = config
           /\ delegate' = delegate]_vars

C30_Witness ==
    /\ config = {}
    /\ ret.op = "LogIn"
    /\ ret.err = ErrNoKey

\* the step serves a request whose password field is raw
PasswordStep(raw) ==
    \/ \E g \in KmEntropy, d \in KmSeal : create(raw, g[1], g[2], d[1], d[2])
    \/ \E t \in TokenDraws : login(raw, t)
    \/ \E q \in RawPasswords, d \in KmSeal : changePassword(raw, q, d[1], d[2])
    \/ \E i \in Pups, t \in TokenDraws, d \in KmSeal :
           createDelegate(i, raw, t, d[1], d[2])

\* the step serves a request whose new_password field is raw, its other
\* fields being in order
NewPasswordStep(raw) ==
    \/ \E w \in Passwords, d \in KmSeal : changePassword(w, raw, d[1], d[2])
    \/ \E m \in KmMnemonics, d \in KmSeal : recoverPassword(m, raw, d[1], d[2])

\* C31 (as stated): on every endpoint that takes a password or new_password
\* the value is trimmed before use, and a value that is empty after trimming
\* is turned away with the code password / newpassword before the key manager
\* is called; so a password /create accepted (the record opens under its
\* trimmed form) is not called wrong by any other endpoint.
C31_Original ==
    [][\A raw \in RawPasswords :
          /\ PasswordStep(raw) =>
                 /\ TrimSpace(raw) = "" => (ret'.op \in Paths /\ ret'.err = "password")
                 /\ ret'.op \notin Paths =>
                        /\ ret'.pass = TrimSpace(raw)
                        /\ OpensRecord(config, TrimSpace(raw)) =>
                               ret'.err # ErrWrongPassword
          /\ NewPasswordStep(raw) =>
                 /\ TrimSpace(raw) = "" => (ret'.op \in Paths /\ ret'.err = "newpassword")
                 /\ ret'.op \notin Paths => ret'.newpass = TrimSpace(raw)]_vars

\* C39 (as stated): when the key manager returns an error the handler writes
\* exactly one body, the error body with the code of the error, and no
\* success-shaped body after it.
C39_Original ==
    (ret.op \notin Paths /\ ret.op # "New" /\ ret.err \notin {Nil, Panic}) =>
        Written(ret) = <<sendError(codeForErr(ret.err))>>

\* the key index stored for the id
KeyIndexOf(dlg, id) == (CHOOSE r \in dlg : r.id = id).keyid

\* C32: MakeDelegate never rotates: for an id that already has a record,
\* whether CreateDelegate or an earlier MakeDelegate wrote it, a MakeDelegate
\* call with a token of the session table succeeds and returns the private
\* key, public key and WIF of the child at the record's stored key index, so
\* every such call returns the same three values; the delegate table, and
\* with it the greatest key index, is as it was.
C32_NeverRotates ==
    [][(/\ MakeDelegateStep
        /\ ret'.token \in DOMAIN cleanSessions(sessions, now)
        /\ \E r \in delegate : r.id = ret'.id)
       => LET child == ChildAt(KeyIndexOf(delegate, ret'.id))
          IN  /\ ret'.err = Nil
              /\ ret'.privkey = GetECPrivKey(child)
              /\ ret'.pubkey = GetECPubKey(child)
              /\ ret'.wif = EncodeWIF(child)
              /\ delegate' = delegate
              /\ GetMaxDelegate(delegate') = GetMaxDelegate(delegate)]_vars

\* MakeDelegate answered for a sealed record and for a lazily created one
\* while a record with a greater key index existed
C32_Witness ==
    /\ ret.op = "MakeDelegate"
    /\ ret.err = Nil
    /\ \E r \in delegate, q \in delegate :
           /\ r.id = ret.id
           /\ q.keyid > r.keyid
           /\ Sealed(r) /\ ~Sealed(q)
           /\ ret.wif = EncodeWIF(ChildAt(r.keyid))

\* C33: a token minted by LogIn or RollToken at time T gets a record that
\* expires at T + 610 and is reported with a ttl of 600; while it is neither
\* logged out nor rolled the record stays as it is up to T + 610, and a token
\* that left the table never comes back.  RollToken and MakeDelegate accept
\* the token at every time before T + 610 and answer ErrBadToken at every
\* time after T + 610, whether the record is still in the table or an earlier
\* call has pruned it.
C33_Lifetime ==
    [][/\ ((LogInStep(TokenDraws) \/ RollTokenStep(TokenDraws)) /\ ret'.err = Nil) =>
              /\ ret'.newtoken \notin Minted
              /\ sessions'[ret'.newtoken] =
                     Session(now + SessionTime + HandoverTime, FALSE)
              /\ ret'.ends = SessionTime
       /\ \A u \in Minted :
              /\ u \notin DOMAIN sessions => u \notin DOMAIN sessions'
              /\ (/\ u \in DOMAIN sessions
                  /\ ~sessions[u].rolled
                  /\ sessions[u].expires >= now'
                  /\ ~(LogOutStep /\ ret'.token = u)
                  /\ ~(RollTokenStep(TokenDraws) /\ ret'.token = u)) =>
                     /\ u \in DOMAIN sessions'
                     /\ sessions'[u] = sessions[u]
       /\ (RollTokenStep(TokenDraws) \/ MakeDelegateStep) =>
              LET s == Lookup(sessions, ret'.token)
              IN  /\ (s # NoSession /\ ~s.rolled /\ now < s.expires) =>
                         /\ ret'.err # ErrBadToken
                         /\ MakeDelegateStep => ret'.err = Nil
                  /\ (s = NoSession \/ s.expires < now) =>
                         ret'.err = ErrBadToken]_vars

\* RollToken turned down a token that was never rolled, after its time, while
\* a younger session in its last seconds was still in the table
C33_Witness ==
    /\ ret.op = "RollToken"
    /\ ret.err = ErrBadToken
    /\ ret.found # NoSession
    /\ ~ret.found.rolled
    /\ ret.found.expires < now
    /\ \E u \in DOMAIN sessions :
           /\ ~sessions[u].rolled
           /\ sessions[u].expires > now
           /\ sessions[u].expires - now <= HandoverTime

\* what RollToken and MakeDelegate do with a token that was rolled: a
\* successful RollToken(t) at time T leaves t marked rolled with expiry
\* T + 10; MakeDelegate accepts a rolled token up to its expiry and answers
\* ErrBadToken after it; RollToken answers ErrBadToken for a rolled token
Handover ==
    /\ (RollTokenStep(TokenDraws) /\ ret'.err = Nil) =>
           /\ ret'.token \in DOMAIN sessions'
           /\ sessions'[ret'.token] = Session(now + HandoverTime, TRUE)
    /\ MakeDelegateStep =>
           LET s == Lookup(sessions, ret'.token)
           IN  /\ (s.rolled /\ now <= s.expires) => ret'.err = Nil
               /\ (s.rolled /\ s.expires < now) => ret'.err = ErrBadToken
    /\ (RollTokenStep(TokenDraws) /\ ret'.found.rolled) => ret'.err = ErrBadToken

\* C34 as stated: after a successful RollToken(t) at time T the old token is
\* accepted by MakeDelegate until T + 10 whatever is called in between (its
\* record stays in the table as it is while T + 10 has not passed), is rejected
\* with ErrBadToken after T + 10, and is never accepted by RollToken again.
C34_Original ==
    [][/\ Handover
       /\ \A u \in DOMAIN sessions :
              (sessions[u].rolled /\ sessions[u].expires >= now') =>
                  /\ u \in DOMAIN sessions'
                  /\ sessions'[u] = sessions[u]]_vars

\* C34 amended: after a successful RollToken(t) at time T the old token is
\* accepted by MakeDelegate until T + 10 unless LogOut(t) or a further
\* RollToken(t) is called before: either removes t from the table at once, and
\* a removed token never comes back and is answered with ErrBadToken.  The old
\* token is rejected with ErrBadToken after T + 10 and is never accepted by
\* RollToken again.
C34_Handover ==
    [][/\ Handover
       /\ \A u \in DOMAIN sessions :
              (sessions[u].rolled /\ sessions[u].expires >= now') =>
                  IF ret'.token = u /\ (LogOutStep \/ RollTokenStep(TokenDraws))
                  THEN u \notin DOMAIN sessions'
                  ELSE /\ u \in DOMAIN sessions'
                       /\ sessions'[u] = sessions[u]
       /\ \A u \in Minted \ DOMAIN sessions :
              /\ u \notin DOMAIN sessions'
              /\ (ret'.token = u /\ (MakeDelegateStep \/ RollTokenStep(TokenDraws))) =>
                     ret'.err = ErrBadToken]_vars

\* MakeDelegate served the old token in its handover time
C34_Witness ==
    /\ ret.op = "MakeDelegate"
    /\ ret.err = Nil
    /\ ret.found.rolled
    /\ ret.found.expires > now
    /\ ret.token \in DOMAIN sessions
    /\ \E u \in DOMAIN sessions : ~sessions[u].rolled

\* C35: once the master record exists exactly one password opens it.  A
\* successful CreateKey leaves its password as the one that opens the record,
\* a successful ChangePassword or RecoverPassword its new password; every
\* other step, a failed ChangePassword or RecoverPassword among them, leaves
\* the record as it was.  LogIn(p), its token draw delivered, succeeds exactly
\* if p is that password.
C35_OnePassword ==
    [][/\ config' # {} => Cardinality(Opens(config')) = 1
       /\ IF CreateKeyStep(Draws) /\ ret'.err = Nil
          THEN Opens(config') = {ret'.pass}
          ELSE IF (ChangePasswordStep(Draws) \/ RecoverPasswordStep(Draws))
                      /\ ret'.err = Nil
               THEN Opens(config') = {ret'.newpass}
               ELSE config' = config
       /\ LogInStep(GoodTokens) =>
              (ret'.err = Nil <=> ret'.pass \in Opens(config))]_vars

\* a ChangePassword call failed on the old password, after a LogIn, and the
\* password it would have set is not the one that opens the record
C35_Witness ==
    /\ ret.op = "ChangePassword"
    /\ ret.err = ErrWrongPassword
    /\ Opens(config) = {"wowsecure"}
    /\ ret.newpass = "suchpass"
    /\ DOMAIN sessions # {}

\* C36 (as stated): no operation moves the expiry of a session to a later
\* instant than the one it had, which for a token that was never rolled is
\* the one set at creation, minting time + 610; RollToken on a token with
\* less than the handover time left is no exception.
C36_Original ==
    [][\A u \in DOMAIN sessions \cap DOMAIN sessions' :
          sessions'[u].expires <= sessions[u].expires]_vars

\* C37: ChangePassword and RecoverPassword, successful or failed, leave the
\* session table and the cached master as they were, and the cached master
\* still decodes to the master key the mnemonic stands for; a token minted
\* before the call is served by the RollToken or MakeDelegate call that
\* follows it as it would have been served before, MakeDelegate returning a
\* child of that same master.
C37_SessionsSurvive ==
    [][/\ (ChangePasswordStep(Draws) \/ RecoverPasswordStep(Draws)) =>
              /\ sessions' = sessions
              /\ key' = key
              /\ key # NoBytes =>
                     /\ DecodeBip32WIF(key').err = Nil
                     /\ DecodeBip32WIF(key').key = IssuedMaster
       /\ (ret.op \in {"ChangePassword", "RecoverPassword"} /\ ret.err = Nil) =>
              /\ (RollTokenStep(GoodTokens) /\ Rollable(sessions, ret'.token, now)) =>
                     ret'.err = Nil
              /\ (MakeDelegateStep /\ Live(sessions, ret'.token, now)) =>
                     /\ ret'.err = Nil
                     /\ \E r \in delegate' :
                            /\ r.id = ret'.id
                            /\ ret'.wif = EncodeWIF(ChildAt(r.keyid))]_vars

\* a recovery set a password while a session was running: its token can
\* still be rolled and the cache still holds the master
C37_Witness ==
    /\ ret.op = "RecoverPassword"
    /\ ret.err = Nil
    /\ \E u \in DOMAIN sessions : Rollable(sessions, u, now)
    /\ key # NoBytes
    /\ DecodeBip32WIF(key).key = IssuedMaster
    /\ Opens(config) # {}

\* the record MakeDelegate left for the id: it holds no envelope
Lazy(dlg, id) == \E r \in dlg : r.id = id /\ ~Sealed(r)

\* what holds of an id whose record MakeDelegate created, whatever password
\* and token the calls are given: the record stays as it is and no second
\* record is added for the id, so the id never gets a sealed record;
\* GetDelegatePriv returns no private key and no pub, and GetDelegatePub does
\* not return the public key of the child at the record's key index
LockedOut ==
    /\ \A r \in delegate : ~Sealed(r) =>
           /\ r \in delegate'
           /\ \A q \in delegate' : q.id = r.id => q = r
    /\ (GetDelegatePrivStep /\ Lazy(delegate, ret'.id)) =>
           /\ ret'.err # Nil
           /\ ret'.privkey = NoBytes
           /\ ret'.pubkey = NoBytes
    /\ (GetDelegatePubStep /\ Lazy(delegate, ret'.id)) =>
           ret'.pubkey # GetECPubKey(ChildAt(KeyIndexOf(delegate, ret'.id)))

\* C38 as stated: once MakeDelegate has created the record of an id, the id
\* never gets a sealed record, GetDelegatePriv and GetDelegatePub never return
\* the child's keys, and every CreateDelegate for the id fails with
\* AlreadyExists (here: even among the calls whose random reads deliver).
C38_Original ==
    [][/\ LockedOut
       /\ (CreateDelegateFedStep /\ Lazy(delegate, ret'.id)) =>
              ret'.err = ErrAlreadyExists]_vars

\* C38 amended: once MakeDelegate has created the record of an id, the id
\* never gets a sealed record, GetDelegatePriv and GetDelegatePub never return
\* the child's keys, and every CreateDelegate for the id fails and returns no
\* token: with WrongPassword when the password does not open the master
\* record, with AlreadyExists when it does and the random reads deliver, with
\* OutOfEntropy otherwise.
C38_LockedOut ==
    [][/\ LockedOut
       /\ (CreateDelegateStep /\ Lazy(delegate, ret'.id)) =>
              /\ ret'.err # Nil
              /\ ret'.newtoken = NoToken
              /\ ret'.pass \notin Opens(config) => ret'.err = ErrWrongPassword
              /\ ret'.pass \in Opens(config) =>
                     /\ ret'.err \in {ErrAlreadyExists, ErrOutOfEntropy}
                     /\ CreateDelegateFedStep => ret'.err = ErrAlreadyExists]_vars

\* CreateDelegate, given the right password, was turned away for an id whose
\* record MakeDelegate created
C38_Witness ==
    /\ ret.op = "CreateDelegate"
    /\ ret.err = ErrAlreadyExists
    /\ ret.pass \in Opens(config)
    /\ Lazy(delegate, ret.id)

\* the BIP32 index a returned public key was derived at: the last element of
\* its path m/1000'/2'/index
IndexOf(pub) == pub[3][Len(pub[3])]

\* the top bit of the uint32 is set
IsHardened(x) == x[1] >= HardenedHi

\* C40 (as stated): every index CreateDelegate and MakeDelegate derive a
\* delegate at is hardened, H + keyIndex being at least 2^31 in 32-bit
\* arithmetic for every greatest key index the store returns, and the key
\* index max + 1 given to a new record is not the key index of a record the
\* table holds.
C40_Original ==
    [][(ret'.op \in {"CreateDelegate", "MakeDelegate"} /\ ret'.err = Nil) =>
          /\ IsHardened(IndexOf(ret'.pubkey))
          /\ \A r \in delegate' \ delegate :
                 \A q \in delegate : q.keyid # r.keyid]_vars

====
